---- MODULE Spec2Model ----
(***************************************************************************)
(* Model of the MaRDI DOIP server: the strict wire codec                   *)
(* (doip_server/protocol.py) and the per-connection supervisor of the      *)
(* strict listener (doip_server/main.py).                                  *)
(*                                                                         *)
(* Bytes are integers 0..255, byte strings are sequences of bytes.  A      *)
(* Python str is the sequence of its code points; every string of the      *)
(* model is ASCII, so str.encode("utf-8") yields the same sequence, and    *)
(* bytes.decode("utf-8") fails on any byte >= 0x80 (the only such byte     *)
(* the model feeds is 0xFF, which no UTF-8 sequence contains).             *)
(***************************************************************************)
EXTENDS Integers, Sequences, FiniteSets, TLC

\* ------------------------------------------------------------ bounds
MaxJsonBlocks == 1
MaxCompBlocks == 2
MaxRawBlocks == 2
MaxFrames == 2

\* --------------------------------------------- doip_shared/constants.py
DOIP_VERSION == 2
MSG_TYPE_REQUEST == 1
MSG_TYPE_RESPONSE == 2
MSG_TYPE_ERROR == 127
OP_HELLO == 1
OP_RETRIEVE == 2
OP_LIST_OPS == 4
OP_INVOKE == 5
BLOCK_METADATA == 1
BLOCK_COMPONENT == 2
BLOCK_WORKFLOW == 3
HEADER_SIZE == 10

\* ComponentBlock.declared_size = None
NoneSize == -1

\* "application/octet-stream"
OctetStream ==
  <<97, 112, 112, 108, 105, 99, 97, 116, 105, 111, 110, 47, 111, 99, 116,
    101, 116, 45, 115, 116, 114, 101, 97, 109>>

\* ------------------------------------------------------- byte helpers
Min(a, b) == IF a < b THEN a ELSE b

\* Python b[i:j] for 0 <= i, with both ends clamped to len(b).
Slice(b, i, j) == SubSeq(b, Min(i, Len(b)) + 1, Min(j, Len(b)))

\* struct.pack(">B", n), struct.pack(">H", n), struct.pack(">I", n)
PackU16(n) == <<(n \div 256) % 256, n % 256>>
PackU32(n) ==
  <<(n \div 16777216) % 256, (n \div 65536) % 256, (n \div 256) % 256, n % 256>>

\* struct.unpack_from(">H" / ">I", b, off): the caller checks off + size <= len(b)
UnpackU16(b, off) == b[off + 1] * 256 + b[off + 2]
UnpackU32(b, off) ==
  b[off + 1] * 16777216 + b[off + 2] * 65536 + b[off + 3] * 256 + b[off + 4]

RECURSIVE Concat(_)
Concat(chunks) ==
  IF chunks = <<>> THEN <<>> ELSE Head(chunks) \o Concat(Tail(chunks))

\* str.encode("utf-8") on the ASCII strings of the model
Utf8Encode(s) == s
\* bytes.decode("utf-8"): UnicodeDecodeError on a byte that is not ASCII
Utf8Valid(b) == \A i \in 1..Len(b) : b[i] < 128

\* ------------------------------------------------------------- JSON
\* A JSON value: t is "obj", "arr", "str", "int"; an object's members are
\* kv = <<key, value>> pairs in insertion order, an array's items are the
\* pairs' values.
J(t, s, n, kv) == [t |-> t, s |-> s, n |-> n, kv |-> kv]
JStr(s) == J("str", s, 0, <<>>)
JInt(n) == J("int", "", n, <<>>)
JObj(kv) == J("obj", "", 0, kv)
JArr(kv) == J("arr", "", 0, kv)
JNone == J("none", "", 0, <<>>)

\* dict.get(key)
JGet(d, key) ==
  IF \E i \in 1..Len(d.kv) : d.kv[i][1] = key
  THEN d.kv[CHOOSE i \in 1..Len(d.kv) : d.kv[i][1] = key][2]
  ELSE JNone

\* {} and {"a":"b"}
EmptyObj == JObj(<<>>)
ObjAB == JObj(<<<<"a", JStr("b")>>>>)
\* []
ArrEmpty == JArr(<<>>)
\* Request metadata blocks
MetaListOps == JObj(<<<<"operation", JStr("list_ops")>>>>)
MetaElementC == JObj(<<<<"element", JStr("c")>>>>)
MetaWorkflowEq == JObj(<<<<"workflow", JStr("equation_extraction")>>>>)
\* handle_list_ops' metadata block
ListOpsBlock ==
  JObj(<<<<"operation", JStr("list_operations")>>, <<"availableOperations",
    JObj(<<<<"hello", JInt(1)>>, <<"retrieve", JInt(2)>>, <<"invoke",
    JInt(5)>>>>)>>>>)
\* The manifest the registry serves: one component "c" of media type "a/b"
Manifest ==
  JObj(<<<<"kernel", JObj(<<<<"fdo:hasComponent", JArr(<<<<"",
    JObj(<<<<"componentId", JStr("c")>>, <<"mediaType",
    JStr("a/b")>>>>)>>>>)>>>>)>>>>)
\* A manifest whose components declare their type in three ways: "c" by
\* mediaType, "d" by mimeType, "e" not at all
ManifestTyped ==
  JObj(<<<<"kernel", JObj(<<<<"fdo:hasComponent", JArr(<<<<"",
    JObj(<<<<"componentId", JStr("c")>>, <<"mediaType", JStr("a/b")>>>>)>>,
    <<"", JObj(<<<<"componentId", JStr("d")>>, <<"mimeType",
    JStr("x/y")>>>>)>>, <<"", JObj(<<<<"componentId",
    JStr("e")>>>>)>>>>)>>>>)>>>>)
\* A manifest that lists a stored component "rocrate"
ManifestCrate ==
  JObj(<<<<"kernel", JObj(<<<<"fdo:hasComponent", JArr(<<<<"",
    JObj(<<<<"componentId", JStr("rocrate")>>, <<"mediaType",
    JStr("application/zip")>>>>)>>>>)>>>>)>>>>)
\* A manifest without a rocrate component whose profile has distributions, the
\* second of them with a contentUrl
ManifestDist ==
  JObj(<<<<"kernel", JObj(<<<<"fdo:hasComponent", JArr(<<<<"",
    JObj(<<<<"componentId", JStr("c")>>, <<"mediaType",
    JStr("a/b")>>>>)>>>>)>>>>)>>, <<"profile", JObj(<<<<"distribution",
    JArr(<<<<"", JObj(<<<<"name", JStr("n")>>>>)>>, <<"",
    JObj(<<<<"contentUrl", JStr("https://e.org/f.csv")>>>>)>>>>)>>>>)>>>>)
\* A block that names the workflow and gives it params
MetaWorkflowEqParams ==
  JObj(<<<<"workflow", JStr("equation_extraction")>>, <<"params",
    JObj(<<<<"a", JStr("b")>>>>)>>>>)
\* run_equation_extraction_workflow's result for object Q1 (the created item id
\* is the environment's)
EqResultQ1 ==
  JObj(<<<<"workflow", JStr("equation_extraction")>>, <<"sourceObject",
    JStr("Q1")>>, <<"derivedComponents", JArr(<<<<"",
    JObj(<<<<"componentId", JStr("doip:bitstream/Q1/equations-json")>>,
    <<"mediaType", JStr("application/json")>>, <<"s3Key",
    JStr("main/00/00/01/Q1/components/doip:bitstream/Q1/equations-json.json")>>,
    <<"size", JInt(77)>>>>)>>>>)>>, <<"createdItems", JArr(<<<<"",
    JStr("Q1762221600a1b2c3")>>>>)>>>>)

\* {"operation":"invoke","workflow":workflow_name,"result":result}
InvokeBlock(workflow_name, result) ==
  JObj(<< <<"operation", JStr("invoke")>>, <<"workflow", workflow_name>>,
          <<"result", result>> >>)

\* A request metadata block that names an operation: {"operation": name}
MetaOperation(name) == JObj(<< <<"operation", JStr(name)>> >>)

\* {"error": type(exc).__name__, "message": str(exc)}
ErrorBlock(name, detail) ==
  JObj(<< <<"error", JStr(name)>>, <<"message", JStr(detail)>> >>)

\* The JSON texts of the model: text is the UTF-8 text, val the value
\* json.loads gives for it, canon whether text is what
\* json.dumps(val, separators=(",", ":"), ensure_ascii=False) emits.
JsonEntry(text, val, canon) == [text |-> text, val |-> val, canon |-> canon]

\* The texts json.dumps(data) emits with its default separators (", " and
\* ": "), for the status objects of the compatibility listener
DefaultJson ==
  {
    \* {"status": "success", "metadata": []}
    JsonEntry(
      <<123, 34, 115, 116, 97, 116, 117, 115, 34, 58, 32, 34, 115, 117, 99,
        99, 101, 115, 115, 34, 44, 32, 34, 109, 101, 116, 97, 100, 97, 116,
        97, 34, 58, 32, 91, 93, 125>>,
      JObj(<<<<"status", JStr("success")>>, <<"metadata", JArr(<<>>)>>>>), FALSE),
    \* {"status": "success", "metadata": [], "attributes": {"filename": "c"}}
    JsonEntry(
      <<123, 34, 115, 116, 97, 116, 117, 115, 34, 58, 32, 34, 115, 117, 99,
        99, 101, 115, 115, 34, 44, 32, 34, 109, 101, 116, 97, 100, 97, 116,
        97, 34, 58, 32, 91, 93, 44, 32, 34, 97, 116, 116, 114, 105, 98,
        117, 116, 101, 115, 34, 58, 32, 123, 34, 102, 105, 108, 101, 110,
        97, 109, 101, 34, 58, 32, 34, 99, 34, 125, 125>>,
      JObj(<<<<"status", JStr("success")>>, <<"metadata", JArr(<<>>)>>,
        <<"attributes", JObj(<<<<"filename", JStr("c")>>>>)>>>>), FALSE),
    \* {"status": "success", "metadata": [], "attributes": {"filename": "rocrate"
    JsonEntry(
      <<123, 34, 115, 116, 97, 116, 117, 115, 34, 58, 32, 34, 115, 117, 99,
        99, 101, 115, 115, 34, 44, 32, 34, 109, 101, 116, 97, 100, 97, 116,
        97, 34, 58, 32, 91, 93, 44, 32, 34, 97, 116, 116, 114, 105, 98,
        117, 116, 101, 115, 34, 58, 32, 123, 34, 102, 105, 108, 101, 110,
        97, 109, 101, 34, 58, 32, 34, 114, 111, 99, 114, 97, 116, 101, 34,
        125, 125>>,
      JObj(<<<<"status", JStr("success")>>, <<"metadata", JArr(<<>>)>>,
        <<"attributes", JObj(<<<<"filename", JStr("rocrate")>>>>)>>>>), FALSE),
    \* {"status": "success", "metadata": [{"kernel": {"fdo:hasComponent": [{"comp
    JsonEntry(
      <<123, 34, 115, 116, 97, 116, 117, 115, 34, 58, 32, 34, 115, 117, 99,
        99, 101, 115, 115, 34, 44, 32, 34, 109, 101, 116, 97, 100, 97, 116,
        97, 34, 58, 32, 91, 123, 34, 107, 101, 114, 110, 101, 108, 34, 58,
        32, 123, 34, 102, 100, 111, 58, 104, 97, 115, 67, 111, 109, 112,
        111, 110, 101, 110, 116, 34, 58, 32, 91, 123, 34, 99, 111, 109,
        112, 111, 110, 101, 110, 116, 73, 100, 34, 58, 32, 34, 99, 34, 44,
        32, 34, 109, 101, 100, 105, 97, 84, 121, 112, 101, 34, 58, 32, 34,
        97, 47, 98, 34, 125, 93, 125, 125, 93, 125>>,
      JObj(<<<<"status", JStr("success")>>, <<"metadata", JArr(<<<<"",
        JObj(<<<<"kernel", JObj(<<<<"fdo:hasComponent", JArr(<<<<"",
        JObj(<<<<"componentId", JStr("c")>>, <<"mediaType",
        JStr("a/b")>>>>)>>>>)>>>>)>>>>)>>>>)>>>>), FALSE),
    \* {"status": "success", "metadata": [{"kernel": {"fdo:hasComponent": [{"comp
    JsonEntry(
      <<123, 34, 115, 116, 97, 116, 117, 115, 34, 58, 32, 34, 115, 117, 99,
        99, 101, 115, 115, 34, 44, 32, 34, 109, 101, 116, 97, 100, 97, 116,
        97, 34, 58, 32, 91, 123, 34, 107, 101, 114, 110, 101, 108, 34, 58,
        32, 123, 34, 102, 100, 111, 58, 104, 97, 115, 67, 111, 109, 112,
        111, 110, 101, 110, 116, 34, 58, 32, 91, 123, 34, 99, 111, 109,
        112, 111, 110, 101, 110, 116, 73, 100, 34, 58, 32, 34, 99, 34, 44,
        32, 34, 109, 101, 100, 105, 97, 84, 121, 112, 101, 34, 58, 32, 34,
        97, 47, 98, 34, 125, 93, 125, 125, 93, 44, 32, 34, 97, 116, 116,
        114, 105, 98, 117, 116, 101, 115, 34, 58, 32, 123, 34, 102, 105,
        108, 101, 110, 97, 109, 101, 34, 58, 32, 34, 99, 34, 125, 125>>,
      JObj(<<<<"status", JStr("success")>>, <<"metadata", JArr(<<<<"",
        JObj(<<<<"kernel", JObj(<<<<"fdo:hasComponent", JArr(<<<<"",
        JObj(<<<<"componentId", JStr("c")>>, <<"mediaType",
        JStr("a/b")>>>>)>>>>)>>>>)>>>>)>>>>)>>, <<"attributes",
        JObj(<<<<"filename", JStr("c")>>>>)>>>>), FALSE),
    \* {"status": "success", "metadata": [{"kernel": {"fdo:hasComponent": [{"comp
    JsonEntry(
      <<123, 34, 115, 116, 97, 116, 117, 115, 34, 58, 32, 34, 115, 117, 99,
        99, 101, 115, 115, 34, 44, 32, 34, 109, 101, 116, 97, 100, 97, 116,
        97, 34, 58, 32, 91, 123, 34, 107, 101, 114, 110, 101, 108, 34, 58,
        32, 123, 34, 102, 100, 111, 58, 104, 97, 115, 67, 111, 109, 112,
        111, 110, 101, 110, 116, 34, 58, 32, 91, 123, 34, 99, 111, 109,
        112, 111, 110, 101, 110, 116, 73, 100, 34, 58, 32, 34, 99, 34, 44,
        32, 34, 109, 101, 100, 105, 97, 84, 121, 112, 101, 34, 58, 32, 34,
        97, 47, 98, 34, 125, 93, 125, 125, 93, 44, 32, 34, 97, 116, 116,
        114, 105, 98, 117, 116, 101, 115, 34, 58, 32, 123, 34, 102, 105,
        108, 101, 110, 97, 109, 101, 34, 58, 32, 34, 114, 111, 99, 114, 97,
        116, 101, 34, 125, 125>>,
      JObj(<<<<"status", JStr("success")>>, <<"metadata", JArr(<<<<"",
        JObj(<<<<"kernel", JObj(<<<<"fdo:hasComponent", JArr(<<<<"",
        JObj(<<<<"componentId", JStr("c")>>, <<"mediaType",
        JStr("a/b")>>>>)>>>>)>>>>)>>>>)>>>>)>>, <<"attributes",
        JObj(<<<<"filename", JStr("rocrate")>>>>)>>>>), FALSE),
    \* {"status": "success", "metadata": [{"operation": "invoke", "workflow": "eq
    JsonEntry(
      <<123, 34, 115, 116, 97, 116, 117, 115, 34, 58, 32, 34, 115, 117, 99,
        99, 101, 115, 115, 34, 44, 32, 34, 109, 101, 116, 97, 100, 97, 116,
        97, 34, 58, 32, 91, 123, 34, 111, 112, 101, 114, 97, 116, 105, 111,
        110, 34, 58, 32, 34, 105, 110, 118, 111, 107, 101, 34, 44, 32, 34,
        119, 111, 114, 107, 102, 108, 111, 119, 34, 58, 32, 34, 101, 113,
        117, 97, 116, 105, 111, 110, 95, 101, 120, 116, 114, 97, 99, 116,
        105, 111, 110, 34, 44, 32, 34, 114, 101, 115, 117, 108, 116, 34,
        58, 32, 123, 34, 119, 111, 114, 107, 102, 108, 111, 119, 34, 58,
        32, 34, 101, 113, 117, 97, 116, 105, 111, 110, 95, 101, 120, 116,
        114, 97, 99, 116, 105, 111, 110, 34, 44, 32, 34, 115, 111, 117,
        114, 99, 101, 79, 98, 106, 101, 99, 116, 34, 58, 32, 34, 81, 49,
        34, 44, 32, 34, 100, 101, 114, 105, 118, 101, 100, 67, 111, 109,
        112, 111, 110, 101, 110, 116, 115, 34, 58, 32, 91, 123, 34, 99,
        111, 109, 112, 111, 110, 101, 110, 116, 73, 100, 34, 58, 32, 34,
        100, 111, 105, 112, 58, 98, 105, 116, 115, 116, 114, 101, 97, 109,
        47, 81, 49, 47, 101, 113, 117, 97, 116, 105, 111, 110, 115, 45,
        106, 115, 111, 110, 34, 44, 32, 34, 109, 101, 100, 105, 97, 84,
        121, 112, 101, 34, 58, 32, 34, 97, 112, 112, 108, 105, 99, 97, 116,
        105, 111, 110, 47, 106, 115, 111, 110, 34, 44, 32, 34, 115, 51, 75,
        101, 121, 34, 58, 32, 34, 109, 97, 105, 110, 47, 48, 48, 47, 48,
        48, 47, 48, 49, 47, 81, 49, 47, 99, 111, 109, 112, 111, 110, 101,
        110, 116, 115, 47, 100, 111, 105, 112, 58, 98, 105, 116, 115, 116,
        114, 101, 97, 109, 47, 81, 49, 47, 101, 113, 117, 97, 116, 105,
        111, 110, 115, 45, 106, 115, 111, 110, 46, 106, 115, 111, 110, 34,
        44, 32, 34, 115, 105, 122, 101, 34, 58, 32, 55, 55, 125, 93, 44,
        32, 34, 99, 114, 101, 97, 116, 101, 100, 73, 116, 101, 109, 115,
        34, 58, 32, 91, 34, 81, 49, 55, 54, 50, 50, 50, 49, 54, 48, 48, 97,
        49, 98, 50, 99, 51, 34, 93, 125, 125, 93, 44, 32, 34, 97, 116, 116,
        114, 105, 98, 117, 116, 101, 115, 34, 58, 32, 123, 34, 102, 105,
        108, 101, 110, 97, 109, 101, 34, 58, 32, 34, 100, 111, 105, 112,
        58, 98, 105, 116, 115, 116, 114, 101, 97, 109, 47, 81, 49, 47, 101,
        113, 117, 97, 116, 105, 111, 110, 115, 45, 106, 115, 111, 110, 34,
        125, 125>>,
      JObj(<<<<"status", JStr("success")>>, <<"metadata", JArr(<<<<"",
        JObj(<<<<"operation", JStr("invoke")>>, <<"workflow",
        JStr("equation_extraction")>>, <<"result", JObj(<<<<"workflow",
        JStr("equation_extraction")>>, <<"sourceObject", JStr("Q1")>>,
        <<"derivedComponents", JArr(<<<<"", JObj(<<<<"componentId",
        JStr("doip:bitstream/Q1/equations-json")>>, <<"mediaType",
        JStr("application/json")>>, <<"s3Key",
        JStr("main/00/00/01/Q1/components/doip:bitstream/Q1/equations-json.json")>>,
        <<"size", JInt(77)>>>>)>>>>)>>, <<"createdItems", JArr(<<<<"",
        JStr("Q1762221600a1b2c3")>>>>)>>>>)>>>>)>>>>)>>, <<"attributes",
        JObj(<<<<"filename",
        JStr("doip:bitstream/Q1/equations-json")>>>>)>>>>), FALSE),
    \* {"status": "error", "message": "Unsupported operation 4"}
    JsonEntry(
      <<123, 34, 115, 116, 97, 116, 117, 115, 34, 58, 32, 34, 101, 114,
        114, 111, 114, 34, 44, 32, 34, 109, 101, 115, 115, 97, 103, 101,
        34, 58, 32, 34, 85, 110, 115, 117, 112, 112, 111, 114, 116, 101,
        100, 32, 111, 112, 101, 114, 97, 116, 105, 111, 110, 32, 52, 34,
        125>>,
      JObj(<<<<"status", JStr("error")>>, <<"message",
        JStr("Unsupported operation 4")>>>>), FALSE),
    \* {"status": "error", "message": "Unsupported operation describe"}
    JsonEntry(
      <<123, 34, 115, 116, 97, 116, 117, 115, 34, 58, 32, 34, 101, 114,
        114, 111, 114, 34, 44, 32, 34, 109, 101, 115, 115, 97, 103, 101,
        34, 58, 32, 34, 85, 110, 115, 117, 112, 112, 111, 114, 116, 101,
        100, 32, 111, 112, 101, 114, 97, 116, 105, 111, 110, 32, 100, 101,
        115, 99, 114, 105, 98, 101, 34, 125>>,
      JObj(<<<<"status", JStr("error")>>, <<"message",
        JStr("Unsupported operation describe")>>>>), FALSE),
    \* {"status": "error", "message": "Unsupported operation None"}
    JsonEntry(
      <<123, 34, 115, 116, 97, 116, 117, 115, 34, 58, 32, 34, 101, 114,
        114, 111, 114, 34, 44, 32, 34, 109, 101, 115, 115, 97, 103, 101,
        34, 58, 32, 34, 85, 110, 115, 117, 112, 112, 111, 114, 116, 101,
        100, 32, 111, 112, 101, 114, 97, 116, 105, 111, 110, 32, 78, 111,
        110, 101, 34, 125>>,
      JObj(<<<<"status", JStr("error")>>, <<"message",
        JStr("Unsupported operation None")>>>>), FALSE)
  }

JsonTable ==
  DefaultJson \cup
  {
    \* {}
    JsonEntry(
      <<123, 125>>,
      EmptyObj, TRUE),
    \* {"a":"b"}
    JsonEntry(
      <<123, 34, 97, 34, 58, 34, 98, 34, 125>>,
      ObjAB, TRUE),
    \* []
    JsonEntry(
      <<91, 93>>,
      ArrEmpty, TRUE),
    \* {"operation":"list_ops"}
    JsonEntry(
      <<123, 34, 111, 112, 101, 114, 97, 116, 105, 111, 110, 34, 58, 34,
        108, 105, 115, 116, 95, 111, 112, 115, 34, 125>>,
      MetaListOps, TRUE),
    \* {"element":"c"}
    JsonEntry(
      <<123, 34, 101, 108, 101, 109, 101, 110, 116, 34, 58, 34, 99, 34,
        125>>,
      MetaElementC, TRUE),
    \* {"workflow":"equation_extraction"}
    JsonEntry(
      <<123, 34, 119, 111, 114, 107, 102, 108, 111, 119, 34, 58, 34, 101,
        113, 117, 97, 116, 105, 111, 110, 95, 101, 120, 116, 114, 97, 99,
        116, 105, 111, 110, 34, 125>>,
      MetaWorkflowEq, TRUE),
    \* {"operation":"list_operations","availableOperations":{"hello":1,"retri
    JsonEntry(
      <<123, 34, 111, 112, 101, 114, 97, 116, 105, 111, 110, 34, 58, 34,
        108, 105, 115, 116, 95, 111, 112, 101, 114, 97, 116, 105, 111, 110,
        115, 34, 44, 34, 97, 118, 97, 105, 108, 97, 98, 108, 101, 79, 112,
        101, 114, 97, 116, 105, 111, 110, 115, 34, 58, 123, 34, 104, 101,
        108, 108, 111, 34, 58, 49, 44, 34, 114, 101, 116, 114, 105, 101,
        118, 101, 34, 58, 50, 44, 34, 105, 110, 118, 111, 107, 101, 34, 58,
        53, 125, 125>>,
      ListOpsBlock, TRUE),
    \* {"kernel":{"fdo:hasComponent":[{"componentId":"c","mediaType":"a/b"}]}
    JsonEntry(
      <<123, 34, 107, 101, 114, 110, 101, 108, 34, 58, 123, 34, 102, 100,
        111, 58, 104, 97, 115, 67, 111, 109, 112, 111, 110, 101, 110, 116,
        34, 58, 91, 123, 34, 99, 111, 109, 112, 111, 110, 101, 110, 116,
        73, 100, 34, 58, 34, 99, 34, 44, 34, 109, 101, 100, 105, 97, 84,
        121, 112, 101, 34, 58, 34, 97, 47, 98, 34, 125, 93, 125, 125>>,
      Manifest, TRUE),
    \* {"kernel":{"fdo:hasComponent":[{"componentId":"c","mediaType":"a/b"},{
    JsonEntry(
      <<123, 34, 107, 101, 114, 110, 101, 108, 34, 58, 123, 34, 102, 100,
        111, 58, 104, 97, 115, 67, 111, 109, 112, 111, 110, 101, 110, 116,
        34, 58, 91, 123, 34, 99, 111, 109, 112, 111, 110, 101, 110, 116,
        73, 100, 34, 58, 34, 99, 34, 44, 34, 109, 101, 100, 105, 97, 84,
        121, 112, 101, 34, 58, 34, 97, 47, 98, 34, 125, 44, 123, 34, 99,
        111, 109, 112, 111, 110, 101, 110, 116, 73, 100, 34, 58, 34, 100,
        34, 44, 34, 109, 105, 109, 101, 84, 121, 112, 101, 34, 58, 34, 120,
        47, 121, 34, 125, 44, 123, 34, 99, 111, 109, 112, 111, 110, 101,
        110, 116, 73, 100, 34, 58, 34, 101, 34, 125, 93, 125, 125>>,
      ManifestTyped, TRUE),
    \* {"kernel":{"fdo:hasComponent":[{"componentId":"rocrate","mediaType":"a
    JsonEntry(
      <<123, 34, 107, 101, 114, 110, 101, 108, 34, 58, 123, 34, 102, 100,
        111, 58, 104, 97, 115, 67, 111, 109, 112, 111, 110, 101, 110, 116,
        34, 58, 91, 123, 34, 99, 111, 109, 112, 111, 110, 101, 110, 116,
        73, 100, 34, 58, 34, 114, 111, 99, 114, 97, 116, 101, 34, 44, 34,
        109, 101, 100, 105, 97, 84, 121, 112, 101, 34, 58, 34, 97, 112,
        112, 108, 105, 99, 97, 116, 105, 111, 110, 47, 122, 105, 112, 34,
        125, 93, 125, 125>>,
      ManifestCrate, TRUE),
    \* {"kernel":{"fdo:hasComponent":[{"componentId":"c","mediaType":"a/b"}]}
    JsonEntry(
      <<123, 34, 107, 101, 114, 110, 101, 108, 34, 58, 123, 34, 102, 100,
        111, 58, 104, 97, 115, 67, 111, 109, 112, 111, 110, 101, 110, 116,
        34, 58, 91, 123, 34, 99, 111, 109, 112, 111, 110, 101, 110, 116,
        73, 100, 34, 58, 34, 99, 34, 44, 34, 109, 101, 100, 105, 97, 84,
        121, 112, 101, 34, 58, 34, 97, 47, 98, 34, 125, 93, 125, 44, 34,
        112, 114, 111, 102, 105, 108, 101, 34, 58, 123, 34, 100, 105, 115,
        116, 114, 105, 98, 117, 116, 105, 111, 110, 34, 58, 91, 123, 34,
        110, 97, 109, 101, 34, 58, 34, 110, 34, 125, 44, 123, 34, 99, 111,
        110, 116, 101, 110, 116, 85, 114, 108, 34, 58, 34, 104, 116, 116,
        112, 115, 58, 47, 47, 101, 46, 111, 114, 103, 47, 102, 46, 99, 115,
        118, 34, 125, 93, 125, 125>>,
      ManifestDist, TRUE),
    \* {"workflow":"equation_extraction","params":{"a":"b"}}
    JsonEntry(
      <<123, 34, 119, 111, 114, 107, 102, 108, 111, 119, 34, 58, 34, 101,
        113, 117, 97, 116, 105, 111, 110, 95, 101, 120, 116, 114, 97, 99,
        116, 105, 111, 110, 34, 44, 34, 112, 97, 114, 97, 109, 115, 34, 58,
        123, 34, 97, 34, 58, 34, 98, 34, 125, 125>>,
      MetaWorkflowEqParams, TRUE),
    \* {"workflow":"equation_extraction","sourceObject":"Q1","derivedComponen
    JsonEntry(
      <<123, 34, 119, 111, 114, 107, 102, 108, 111, 119, 34, 58, 34, 101,
        113, 117, 97, 116, 105, 111, 110, 95, 101, 120, 116, 114, 97, 99,
        116, 105, 111, 110, 34, 44, 34, 115, 111, 117, 114, 99, 101, 79,
        98, 106, 101, 99, 116, 34, 58, 34, 81, 49, 34, 44, 34, 100, 101,
        114, 105, 118, 101, 100, 67, 111, 109, 112, 111, 110, 101, 110,
        116, 115, 34, 58, 91, 123, 34, 99, 111, 109, 112, 111, 110, 101,
        110, 116, 73, 100, 34, 58, 34, 100, 111, 105, 112, 58, 98, 105,
        116, 115, 116, 114, 101, 97, 109, 47, 81, 49, 47, 101, 113, 117,
        97, 116, 105, 111, 110, 115, 45, 106, 115, 111, 110, 34, 44, 34,
        109, 101, 100, 105, 97, 84, 121, 112, 101, 34, 58, 34, 97, 112,
        112, 108, 105, 99, 97, 116, 105, 111, 110, 47, 106, 115, 111, 110,
        34, 44, 34, 115, 51, 75, 101, 121, 34, 58, 34, 109, 97, 105, 110,
        47, 48, 48, 47, 48, 48, 47, 48, 49, 47, 81, 49, 47, 99, 111, 109,
        112, 111, 110, 101, 110, 116, 115, 47, 100, 111, 105, 112, 58, 98,
        105, 116, 115, 116, 114, 101, 97, 109, 47, 81, 49, 47, 101, 113,
        117, 97, 116, 105, 111, 110, 115, 45, 106, 115, 111, 110, 46, 106,
        115, 111, 110, 34, 44, 34, 115, 105, 122, 101, 34, 58, 55, 55, 125,
        93, 44, 34, 99, 114, 101, 97, 116, 101, 100, 73, 116, 101, 109,
        115, 34, 58, 91, 34, 81, 49, 55, 54, 50, 50, 50, 49, 54, 48, 48,
        97, 49, 98, 50, 99, 51, 34, 93, 125>>,
      EqResultQ1, TRUE),
    \* { } (not compact)
    JsonEntry(
      <<123, 32, 125>>,
      EmptyObj, FALSE),
    \* {"operation":"hello"}
    JsonEntry(
      <<123, 34, 111, 112, 101, 114, 97, 116, 105, 111, 110, 34, 58, 34,
        104, 101, 108, 108, 111, 34, 125>>,
      MetaOperation("hello"), TRUE),
    \* {"operation":"retrieve"}
    JsonEntry(
      <<123, 34, 111, 112, 101, 114, 97, 116, 105, 111, 110, 34, 58, 34,
        114, 101, 116, 114, 105, 101, 118, 101, 34, 125>>,
      MetaOperation("retrieve"), TRUE),
    \* {"operation":"invoke"}
    JsonEntry(
      <<123, 34, 111, 112, 101, 114, 97, 116, 105, 111, 110, 34, 58, 34,
        105, 110, 118, 111, 107, 101, 34, 125>>,
      MetaOperation("invoke"), TRUE),
    \* {"operation":"list_operations"}
    JsonEntry(
      <<123, 34, 111, 112, 101, 114, 97, 116, 105, 111, 110, 34, 58, 34,
        108, 105, 115, 116, 95, 111, 112, 101, 114, 97, 116, 105, 111, 110,
        115, 34, 125>>,
      MetaOperation("list_operations"), TRUE),
    \* {"operation":"describe"}
    JsonEntry(
      <<123, 34, 111, 112, 101, 114, 97, 116, 105, 111, 110, 34, 58, 34,
        100, 101, 115, 99, 114, 105, 98, 101, 34, 125>>,
      MetaOperation("describe"), TRUE),
    \* {"operation":1}
    JsonEntry(
      <<123, 34, 111, 112, 101, 114, 97, 116, 105, 111, 110, 34, 58, 49,
        125>>,
      JObj(<< <<"operation", JInt(1)>> >>), TRUE),
    \* {"workflow":"w"}
    JsonEntry(
      <<123, 34, 119, 111, 114, 107, 102, 108, 111, 119, 34, 58, 34, 119,
        34, 125>>,
      JObj(<< <<"workflow", JStr("w")>> >>), TRUE),
    \* the workflow's result for the object id q1
    JsonEntry(
      <<123, 34, 119, 111, 114, 107, 102, 108, 111, 119, 34, 58, 34, 101,
        113, 117, 97, 116, 105, 111, 110, 95, 101, 120, 116, 114, 97, 99,
        116, 105, 111, 110, 34, 44, 34, 115, 111, 117, 114, 99, 101, 79,
        98, 106, 101, 99, 116, 34, 58, 34, 113, 49, 34, 44, 34, 100, 101,
        114, 105, 118, 101, 100, 67, 111, 109, 112, 111, 110, 101, 110,
        116, 115, 34, 58, 91, 123, 34, 99, 111, 109, 112, 111, 110, 101,
        110, 116, 73, 100, 34, 58, 34, 100, 111, 105, 112, 58, 98, 105,
        116, 115, 116, 114, 101, 97, 109, 47, 113, 49, 47, 101, 113, 117,
        97, 116, 105, 111, 110, 115, 45, 106, 115, 111, 110, 34, 44, 34,
        109, 101, 100, 105, 97, 84, 121, 112, 101, 34, 58, 34, 97, 112,
        112, 108, 105, 99, 97, 116, 105, 111, 110, 47, 106, 115, 111, 110,
        34, 44, 34, 115, 51, 75, 101, 121, 34, 58, 34, 109, 97, 105, 110,
        47, 48, 48, 47, 48, 48, 47, 48, 49, 47, 81, 49, 47, 99, 111, 109,
        112, 111, 110, 101, 110, 116, 115, 47, 100, 111, 105, 112, 58, 98,
        105, 116, 115, 116, 114, 101, 97, 109, 47, 113, 49, 47, 101, 113,
        117, 97, 116, 105, 111, 110, 115, 45, 106, 115, 111, 110, 46, 106,
        115, 111, 110, 34, 44, 34, 115, 105, 122, 101, 34, 58, 55, 55, 125,
        93, 44, 34, 99, 114, 101, 97, 116, 101, 100, 73, 116, 101, 109,
        115, 34, 58, 91, 34, 81, 49, 55, 54, 50, 50, 50, 49, 54, 48, 48,
        97, 49, 98, 50, 99, 51, 34, 93, 125>>,
      JObj(<<<<"workflow", JStr("equation_extraction")>>, <<"sourceObject",
        JStr("q1")>>, <<"derivedComponents", JArr(<<<<"",
        JObj(<<<<"componentId", JStr("doip:bitstream/q1/equations-json")>>,
        <<"mediaType", JStr("application/json")>>, <<"s3Key",
        JStr("main/00/00/01/Q1/components/doip:bitstream/q1/equations-json.json")>>,
        <<"size", JInt(77)>>>>)>>>>)>>, <<"createdItems", JArr(<<<<"",
        JStr("Q1762221600a1b2c3")>>>>)>>>>), TRUE),
    \* the invoke metadata block for the object id q1
    JsonEntry(
      <<123, 34, 111, 112, 101, 114, 97, 116, 105, 111, 110, 34, 58, 34,
        105, 110, 118, 111, 107, 101, 34, 44, 34, 119, 111, 114, 107, 102,
        108, 111, 119, 34, 58, 34, 101, 113, 117, 97, 116, 105, 111, 110,
        95, 101, 120, 116, 114, 97, 99, 116, 105, 111, 110, 34, 44, 34,
        114, 101, 115, 117, 108, 116, 34, 58, 123, 34, 119, 111, 114, 107,
        102, 108, 111, 119, 34, 58, 34, 101, 113, 117, 97, 116, 105, 111,
        110, 95, 101, 120, 116, 114, 97, 99, 116, 105, 111, 110, 34, 44,
        34, 115, 111, 117, 114, 99, 101, 79, 98, 106, 101, 99, 116, 34, 58,
        34, 113, 49, 34, 44, 34, 100, 101, 114, 105, 118, 101, 100, 67,
        111, 109, 112, 111, 110, 101, 110, 116, 115, 34, 58, 91, 123, 34,
        99, 111, 109, 112, 111, 110, 101, 110, 116, 73, 100, 34, 58, 34,
        100, 111, 105, 112, 58, 98, 105, 116, 115, 116, 114, 101, 97, 109,
        47, 113, 49, 47, 101, 113, 117, 97, 116, 105, 111, 110, 115, 45,
        106, 115, 111, 110, 34, 44, 34, 109, 101, 100, 105, 97, 84, 121,
        112, 101, 34, 58, 34, 97, 112, 112, 108, 105, 99, 97, 116, 105,
        111, 110, 47, 106, 115, 111, 110, 34, 44, 34, 115, 51, 75, 101,
        121, 34, 58, 34, 109, 97, 105, 110, 47, 48, 48, 47, 48, 48, 47, 48,
        49, 47, 81, 49, 47, 99, 111, 109, 112, 111, 110, 101, 110, 116,
        115, 47, 100, 111, 105, 112, 58, 98, 105, 116, 115, 116, 114, 101,
        97, 109, 47, 113, 49, 47, 101, 113, 117, 97, 116, 105, 111, 110,
        115, 45, 106, 115, 111, 110, 46, 106, 115, 111, 110, 34, 44, 34,
        115, 105, 122, 101, 34, 58, 55, 55, 125, 93, 44, 34, 99, 114, 101,
        97, 116, 101, 100, 73, 116, 101, 109, 115, 34, 58, 91, 34, 81, 49,
        55, 54, 50, 50, 50, 49, 54, 48, 48, 97, 49, 98, 50, 99, 51, 34, 93,
        125, 125>>,
      InvokeBlock(JStr("equation_extraction"),
        JObj(<<<<"workflow", JStr("equation_extraction")>>,
          <<"sourceObject", JStr("q1")>>, <<"derivedComponents",
          JArr(<<<<"", JObj(<<<<"componentId",
          JStr("doip:bitstream/q1/equations-json")>>, <<"mediaType",
          JStr("application/json")>>, <<"s3Key",
          JStr("main/00/00/01/Q1/components/doip:bitstream/q1/equations-json.json")>>,
          <<"size", JInt(77)>>>>)>>>>)>>, <<"createdItems", JArr(<<<<"",
          JStr("Q1762221600a1b2c3")>>>>)>>>>)), TRUE),
    \* the invoke metadata block
    JsonEntry(
      <<123, 34, 111, 112, 101, 114, 97, 116, 105, 111, 110, 34, 58, 34,
        105, 110, 118, 111, 107, 101, 34, 44, 34, 119, 111, 114, 107, 102,
        108, 111, 119, 34, 58, 34, 101, 113, 117, 97, 116, 105, 111, 110,
        95, 101, 120, 116, 114, 97, 99, 116, 105, 111, 110, 34, 44, 34,
        114, 101, 115, 117, 108, 116, 34, 58, 123, 34, 119, 111, 114, 107,
        102, 108, 111, 119, 34, 58, 34, 101, 113, 117, 97, 116, 105, 111,
        110, 95, 101, 120, 116, 114, 97, 99, 116, 105, 111, 110, 34, 44,
        34, 115, 111, 117, 114, 99, 101, 79, 98, 106, 101, 99, 116, 34, 58,
        34, 81, 49, 34, 44, 34, 100, 101, 114, 105, 118, 101, 100, 67, 111,
        109, 112, 111, 110, 101, 110, 116, 115, 34, 58, 91, 123, 34, 99,
        111, 109, 112, 111, 110, 101, 110, 116, 73, 100, 34, 58, 34, 100,
        111, 105, 112, 58, 98, 105, 116, 115, 116, 114, 101, 97, 109, 47,
        81, 49, 47, 101, 113, 117, 97, 116, 105, 111, 110, 115, 45, 106,
        115, 111, 110, 34, 44, 34, 109, 101, 100, 105, 97, 84, 121, 112,
        101, 34, 58, 34, 97, 112, 112, 108, 105, 99, 97, 116, 105, 111,
        110, 47, 106, 115, 111, 110, 34, 44, 34, 115, 51, 75, 101, 121, 34,
        58, 34, 109, 97, 105, 110, 47, 48, 48, 47, 48, 48, 47, 48, 49, 47,
        81, 49, 47, 99, 111, 109, 112, 111, 110, 101, 110, 116, 115, 47,
        100, 111, 105, 112, 58, 98, 105, 116, 115, 116, 114, 101, 97, 109,
        47, 81, 49, 47, 101, 113, 117, 97, 116, 105, 111, 110, 115, 45,
        106, 115, 111, 110, 46, 106, 115, 111, 110, 34, 44, 34, 115, 105,
        122, 101, 34, 58, 55, 55, 125, 93, 44, 34, 99, 114, 101, 97, 116,
        101, 100, 73, 116, 101, 109, 115, 34, 58, 91, 34, 81, 49, 55, 54,
        50, 50, 50, 49, 54, 48, 48, 97, 49, 98, 50, 99, 51, 34, 93, 125,
        125>>,
      InvokeBlock(JStr("equation_extraction"), EqResultQ1), TRUE),
    \* {"error":"ProtocolError","message":"Unsupported DOIP version 3"}
    JsonEntry(
      <<123, 34, 101, 114, 114, 111, 114, 34, 58, 34, 80, 114, 111, 116,
        111, 99, 111, 108, 69, 114, 114, 111, 114, 34, 44, 34, 109, 101,
        115, 115, 97, 103, 101, 34, 58, 34, 85, 110, 115, 117, 112, 112,
        111, 114, 116, 101, 100, 32, 68, 79, 73, 80, 32, 118, 101, 114,
        115, 105, 111, 110, 32, 51, 34, 125>>,
      ErrorBlock("ProtocolError", "Unsupported DOIP version 3"), TRUE),
    \* {"error":"ProtocolError","message":"Truncated DOIP block header"}
    JsonEntry(
      <<123, 34, 101, 114, 114, 111, 114, 34, 58, 34, 80, 114, 111, 116,
        111, 99, 111, 108, 69, 114, 114, 111, 114, 34, 44, 34, 109, 101,
        115, 115, 97, 103, 101, 34, 58, 34, 84, 114, 117, 110, 99, 97, 116,
        101, 100, 32, 68, 79, 73, 80, 32, 98, 108, 111, 99, 107, 32, 104,
        101, 97, 100, 101, 114, 34, 125>>,
      ErrorBlock("ProtocolError", "Truncated DOIP block header"), TRUE),
    \* {"error":"ProtocolError","message":"Truncated DOIP block body"}
    JsonEntry(
      <<123, 34, 101, 114, 114, 111, 114, 34, 58, 34, 80, 114, 111, 116,
        111, 99, 111, 108, 69, 114, 114, 111, 114, 34, 44, 34, 109, 101,
        115, 115, 97, 103, 101, 34, 58, 34, 84, 114, 117, 110, 99, 97, 116,
        101, 100, 32, 68, 79, 73, 80, 32, 98, 108, 111, 99, 107, 32, 98,
        111, 100, 121, 34, 125>>,
      ErrorBlock("ProtocolError", "Truncated DOIP block body"), TRUE),
    \* {"error":"ProtocolError","message":"Unknown block type 9"}
    JsonEntry(
      <<123, 34, 101, 114, 114, 111, 114, 34, 58, 34, 80, 114, 111, 116,
        111, 99, 111, 108, 69, 114, 114, 111, 114, 34, 44, 34, 109, 101,
        115, 115, 97, 103, 101, 34, 58, 34, 85, 110, 107, 110, 111, 119,
        110, 32, 98, 108, 111, 99, 107, 32, 116, 121, 112, 101, 32, 57, 34,
        125>>,
      ErrorBlock("ProtocolError", "Unknown block type 9"), TRUE),
    \* {"error":"ProtocolError","message":"Component block too small"}
    JsonEntry(
      <<123, 34, 101, 114, 114, 111, 114, 34, 58, 34, 80, 114, 111, 116,
        111, 99, 111, 108, 69, 114, 114, 111, 114, 34, 44, 34, 109, 101,
        115, 115, 97, 103, 101, 34, 58, 34, 67, 111, 109, 112, 111, 110,
        101, 110, 116, 32, 98, 108, 111, 99, 107, 32, 116, 111, 111, 32,
        115, 109, 97, 108, 108, 34, 125>>,
      ErrorBlock("ProtocolError", "Component block too small"), TRUE),
    \* {"error":"ProtocolError","message":"Component content length mismatch"}
    JsonEntry(
      <<123, 34, 101, 114, 114, 111, 114, 34, 58, 34, 80, 114, 111, 116,
        111, 99, 111, 108, 69, 114, 114, 111, 114, 34, 44, 34, 109, 101,
        115, 115, 97, 103, 101, 34, 58, 34, 67, 111, 109, 112, 111, 110,
        101, 110, 116, 32, 99, 111, 110, 116, 101, 110, 116, 32, 108, 101,
        110, 103, 116, 104, 32, 109, 105, 115, 109, 97, 116, 99, 104, 34,
        125>>,
      ErrorBlock("ProtocolError", "Component content length mismatch"), TRUE),
    \* {"error":"ProtocolError","message":"Only request messages are supported"}
    JsonEntry(
      <<123, 34, 101, 114, 114, 111, 114, 34, 58, 34, 80, 114, 111, 116,
        111, 99, 111, 108, 69, 114, 114, 111, 114, 34, 44, 34, 109, 101,
        115, 115, 97, 103, 101, 34, 58, 34, 79, 110, 108, 121, 32, 114,
        101, 113, 117, 101, 115, 116, 32, 109, 101, 115, 115, 97, 103, 101,
        115, 32, 97, 114, 101, 32, 115, 117, 112, 112, 111, 114, 116, 101,
        100, 34, 125>>,
      ErrorBlock("ProtocolError", "Only request messages are supported"), TRUE),
    \* {"error":"ProtocolError","message":"Unsupported operation code 153"}
    JsonEntry(
      <<123, 34, 101, 114, 114, 111, 114, 34, 58, 34, 80, 114, 111, 116,
        111, 99, 111, 108, 69, 114, 114, 111, 114, 34, 44, 34, 109, 101,
        115, 115, 97, 103, 101, 34, 58, 34, 85, 110, 115, 117, 112, 112,
        111, 114, 116, 101, 100, 32, 111, 112, 101, 114, 97, 116, 105, 111,
        110, 32, 99, 111, 100, 101, 32, 49, 53, 51, 34, 125>>,
      ErrorBlock("ProtocolError", "Unsupported operation code 153"), TRUE),
    \* {"error":"ProtocolError","message":"Unsupported workflow w"}
    JsonEntry(
      <<123, 34, 101, 114, 114, 111, 114, 34, 58, 34, 80, 114, 111, 116,
        111, 99, 111, 108, 69, 114, 114, 111, 114, 34, 44, 34, 109, 101,
        115, 115, 97, 103, 101, 34, 58, 34, 85, 110, 115, 117, 112, 112,
        111, 114, 116, 101, 100, 32, 119, 111, 114, 107, 102, 108, 111,
        119, 32, 119, 34, 125>>,
      ErrorBlock("ProtocolError", "Unsupported workflow w"), TRUE),
    \* {"error":"ProtocolError","message":"Workflow not specified in invoke reque
    JsonEntry(
      <<123, 34, 101, 114, 114, 111, 114, 34, 58, 34, 80, 114, 111, 116,
        111, 99, 111, 108, 69, 114, 114, 111, 114, 34, 44, 34, 109, 101,
        115, 115, 97, 103, 101, 34, 58, 34, 87, 111, 114, 107, 102, 108,
        111, 119, 32, 110, 111, 116, 32, 115, 112, 101, 99, 105, 102, 105,
        101, 100, 32, 105, 110, 32, 105, 110, 118, 111, 107, 101, 32, 114,
        101, 113, 117, 101, 115, 116, 34, 125>>,
      ErrorBlock("ProtocolError", "Workflow not specified in invoke request"), TRUE),
    \* {"error":"AttributeError","message":"'list' object has no attribute 'get'"
    JsonEntry(
      <<123, 34, 101, 114, 114, 111, 114, 34, 58, 34, 65, 116, 116, 114,
        105, 98, 117, 116, 101, 69, 114, 114, 111, 114, 34, 44, 34, 109,
        101, 115, 115, 97, 103, 101, 34, 58, 34, 39, 108, 105, 115, 116,
        39, 32, 111, 98, 106, 101, 99, 116, 32, 104, 97, 115, 32, 110, 111,
        32, 97, 116, 116, 114, 105, 98, 117, 116, 101, 32, 39, 103, 101,
        116, 39, 34, 125>>,
      ErrorBlock("AttributeError", "'list' object has no attribute 'get'"), TRUE),
    \* {"error":"AttributeError","message":"module 'doip_server.protocol' has no 
    JsonEntry(
      <<123, 34, 101, 114, 114, 111, 114, 34, 58, 34, 65, 116, 116, 114,
        105, 98, 117, 116, 101, 69, 114, 114, 111, 114, 34, 44, 34, 109,
        101, 115, 115, 97, 103, 101, 34, 58, 34, 109, 111, 100, 117, 108,
        101, 32, 39, 100, 111, 105, 112, 95, 115, 101, 114, 118, 101, 114,
        46, 112, 114, 111, 116, 111, 99, 111, 108, 39, 32, 104, 97, 115,
        32, 110, 111, 32, 97, 116, 116, 114, 105, 98, 117, 116, 101, 32,
        39, 79, 80, 95, 68, 69, 83, 67, 82, 73, 66, 69, 39, 34, 125>>,
      ErrorBlock("AttributeError", "module 'doip_server.protocol' has no attribute 'OP_DESCRIBE'"), TRUE),
    \* {"error":"KeyError","message":"'Component id not found: c'"}
    JsonEntry(
      <<123, 34, 101, 114, 114, 111, 114, 34, 58, 34, 75, 101, 121, 69,
        114, 114, 111, 114, 34, 44, 34, 109, 101, 115, 115, 97, 103, 101,
        34, 58, 34, 39, 67, 111, 109, 112, 111, 110, 101, 110, 116, 32,
        105, 100, 32, 110, 111, 116, 32, 102, 111, 117, 110, 100, 58, 32,
        99, 39, 34, 125>>,
      ErrorBlock("KeyError", "'Component id not found: c'"), TRUE),
    \* {"error":"KeyError","message":"'Component id not found: rocrate'"}
    JsonEntry(
      <<123, 34, 101, 114, 114, 111, 114, 34, 58, 34, 75, 101, 121, 69,
        114, 114, 111, 114, 34, 44, 34, 109, 101, 115, 115, 97, 103, 101,
        34, 58, 34, 39, 67, 111, 109, 112, 111, 110, 101, 110, 116, 32,
        105, 100, 32, 110, 111, 116, 32, 102, 111, 117, 110, 100, 58, 32,
        114, 111, 99, 114, 97, 116, 101, 39, 34, 125>>,
      ErrorBlock("KeyError", "'Component id not found: rocrate'"), TRUE),
    \* {"error":"KeyError","message":"'S3 object not found: main/00/00/01/Q1/comp
    JsonEntry(
      <<123, 34, 101, 114, 114, 111, 114, 34, 58, 34, 75, 101, 121, 69,
        114, 114, 111, 114, 34, 44, 34, 109, 101, 115, 115, 97, 103, 101,
        34, 58, 34, 39, 83, 51, 32, 111, 98, 106, 101, 99, 116, 32, 110,
        111, 116, 32, 102, 111, 117, 110, 100, 58, 32, 109, 97, 105, 110,
        47, 48, 48, 47, 48, 48, 47, 48, 49, 47, 81, 49, 47, 99, 111, 109,
        112, 111, 110, 101, 110, 116, 115, 47, 112, 114, 105, 109, 97, 114,
        121, 46, 112, 100, 102, 39, 34, 125>>,
      ErrorBlock("KeyError", "'S3 object not found: main/00/00/01/Q1/components/primary.pdf'"), TRUE),
    \* {"error":"ConnectError","message":"All connection attempts failed"}
    JsonEntry(
      <<123, 34, 101, 114, 114, 111, 114, 34, 58, 34, 67, 111, 110, 110,
        101, 99, 116, 69, 114, 114, 111, 114, 34, 44, 34, 109, 101, 115,
        115, 97, 103, 101, 34, 58, 34, 65, 108, 108, 32, 99, 111, 110, 110,
        101, 99, 116, 105, 111, 110, 32, 97, 116, 116, 101, 109, 112, 116,
        115, 32, 102, 97, 105, 108, 101, 100, 34, 125>>,
      ErrorBlock("ConnectError", "All connection attempts failed"), TRUE),
    \* {"error":"ReadTimeout","message":""}
    JsonEntry(
      <<123, 34, 101, 114, 114, 111, 114, 34, 58, 34, 82, 101, 97, 100, 84,
        105, 109, 101, 111, 117, 116, 34, 44, 34, 109, 101, 115, 115, 97,
        103, 101, 34, 58, 34, 34, 125>>,
      ErrorBlock("ReadTimeout", ""), TRUE),
    \* {"error":"ValueError","message":"invalid identifier: must start with Q"}
    JsonEntry(
      <<123, 34, 101, 114, 114, 111, 114, 34, 58, 34, 86, 97, 108, 117,
        101, 69, 114, 114, 111, 114, 34, 44, 34, 109, 101, 115, 115, 97,
        103, 101, 34, 58, 34, 105, 110, 118, 97, 108, 105, 100, 32, 105,
        100, 101, 110, 116, 105, 102, 105, 101, 114, 58, 32, 109, 117, 115,
        116, 32, 115, 116, 97, 114, 116, 32, 119, 105, 116, 104, 32, 81,
        34, 125>>,
      ErrorBlock("ValueError", "invalid identifier: must start with Q"), TRUE),
    \* {"error":"ValueError","message":"invalid identifier: no digits after Q"}
    JsonEntry(
      <<123, 34, 101, 114, 114, 111, 114, 34, 58, 34, 86, 97, 108, 117,
        101, 69, 114, 114, 111, 114, 34, 44, 34, 109, 101, 115, 115, 97,
        103, 101, 34, 58, 34, 105, 110, 118, 97, 108, 105, 100, 32, 105,
        100, 101, 110, 116, 105, 102, 105, 101, 114, 58, 32, 110, 111, 32,
        100, 105, 103, 105, 116, 115, 32, 97, 102, 116, 101, 114, 32, 81,
        34, 125>>,
      ErrorBlock("ValueError", "invalid identifier: no digits after Q"), TRUE),
    \* {"error":"KeyError","message":"'Component id not found: d'"}
    JsonEntry(
      <<123, 34, 101, 114, 114, 111, 114, 34, 58, 34, 75, 101, 121, 69,
        114, 114, 111, 114, 34, 44, 34, 109, 101, 115, 115, 97, 103, 101,
        34, 58, 34, 39, 67, 111, 109, 112, 111, 110, 101, 110, 116, 32,
        105, 100, 32, 110, 111, 116, 32, 102, 111, 117, 110, 100, 58, 32,
        100, 39, 34, 125>>,
      ErrorBlock("KeyError", "'Component id not found: d'"), TRUE),
    \* {"error":"KeyError","message":"'Component id not found: e'"}
    JsonEntry(
      <<123, 34, 101, 114, 114, 111, 114, 34, 58, 34, 75, 101, 121, 69,
        114, 114, 111, 114, 34, 44, 34, 109, 101, 115, 115, 97, 103, 101,
        34, 58, 34, 39, 67, 111, 109, 112, 111, 110, 101, 110, 116, 32,
        105, 100, 32, 110, 111, 116, 32, 102, 111, 117, 110, 100, 58, 32,
        101, 39, 34, 125>>,
      ErrorBlock("KeyError", "'Component id not found: e'"), TRUE),
    \* {"error":"KeyError","message":"'Component id not found: nope'"}
    JsonEntry(
      <<123, 34, 101, 114, 114, 111, 114, 34, 58, 34, 75, 101, 121, 69,
        114, 114, 111, 114, 34, 44, 34, 109, 101, 115, 115, 97, 103, 101,
        34, 58, 34, 39, 67, 111, 109, 112, 111, 110, 101, 110, 116, 32,
        105, 100, 32, 110, 111, 116, 32, 102, 111, 117, 110, 100, 58, 32,
        110, 111, 112, 101, 39, 34, 125>>,
      ErrorBlock("KeyError", "'Component id not found: nope'"), TRUE),
    \* {"error":"EndpointConnectionError","message":"Could not connect to the end
    JsonEntry(
      <<123, 34, 101, 114, 114, 111, 114, 34, 58, 34, 69, 110, 100, 112,
        111, 105, 110, 116, 67, 111, 110, 110, 101, 99, 116, 105, 111, 110,
        69, 114, 114, 111, 114, 34, 44, 34, 109, 101, 115, 115, 97, 103,
        101, 34, 58, 34, 67, 111, 117, 108, 100, 32, 110, 111, 116, 32, 99,
        111, 110, 110, 101, 99, 116, 32, 116, 111, 32, 116, 104, 101, 32,
        101, 110, 100, 112, 111, 105, 110, 116, 32, 85, 82, 76, 34, 125>>,
      ErrorBlock("EndpointConnectionError", "Could not connect to the endpoint URL"), TRUE),
    \* {"error":"ConnectionError","message":"Max retries exceeded"}
    JsonEntry(
      <<123, 34, 101, 114, 114, 111, 114, 34, 58, 34, 67, 111, 110, 110,
        101, 99, 116, 105, 111, 110, 69, 114, 114, 111, 114, 34, 44, 34,
        109, 101, 115, 115, 97, 103, 101, 34, 58, 34, 77, 97, 120, 32, 114,
        101, 116, 114, 105, 101, 115, 32, 101, 120, 99, 101, 101, 100, 101,
        100, 34, 125>>,
      ErrorBlock("ConnectionError", "Max retries exceeded"), TRUE),
    \* {"targetId":"Q1","operationId":2,"attributes":{"element":"c"}}
    JsonEntry(
      <<123, 34, 116, 97, 114, 103, 101, 116, 73, 100, 34, 58, 34, 81, 49,
        34, 44, 34, 111, 112, 101, 114, 97, 116, 105, 111, 110, 73, 100,
        34, 58, 50, 44, 34, 97, 116, 116, 114, 105, 98, 117, 116, 101, 115,
        34, 58, 123, 34, 101, 108, 101, 109, 101, 110, 116, 34, 58, 34, 99,
        34, 125, 125>>,
      JObj(<<<<"targetId", JStr("Q1")>>, <<"operationId", JInt(2)>>,
        <<"attributes", JObj(<<<<"element", JStr("c")>>>>)>>>>), TRUE),
    \* {"targetId":"Q1","operationId":"RETRIEVE","attributes":{"componentId":"c"}
    JsonEntry(
      <<123, 34, 116, 97, 114, 103, 101, 116, 73, 100, 34, 58, 34, 81, 49,
        34, 44, 34, 111, 112, 101, 114, 97, 116, 105, 111, 110, 73, 100,
        34, 58, 34, 82, 69, 84, 82, 73, 69, 86, 69, 34, 44, 34, 97, 116,
        116, 114, 105, 98, 117, 116, 101, 115, 34, 58, 123, 34, 99, 111,
        109, 112, 111, 110, 101, 110, 116, 73, 100, 34, 58, 34, 99, 34,
        125, 125>>,
      JObj(<<<<"targetId", JStr("Q1")>>, <<"operationId",
        JStr("RETRIEVE")>>, <<"attributes", JObj(<<<<"componentId",
        JStr("c")>>>>)>>>>), TRUE),
    \* {"targetId":"Q1","operationId":2}
    JsonEntry(
      <<123, 34, 116, 97, 114, 103, 101, 116, 73, 100, 34, 58, 34, 81, 49,
        34, 44, 34, 111, 112, 101, 114, 97, 116, 105, 111, 110, 73, 100,
        34, 58, 50, 125>>,
      JObj(<<<<"targetId", JStr("Q1")>>, <<"operationId", JInt(2)>>>>), TRUE),
    \* {"targetId":"Q1","operationId":"retrieve","attributes":{"element":""}}
    JsonEntry(
      <<123, 34, 116, 97, 114, 103, 101, 116, 73, 100, 34, 58, 34, 81, 49,
        34, 44, 34, 111, 112, 101, 114, 97, 116, 105, 111, 110, 73, 100,
        34, 58, 34, 114, 101, 116, 114, 105, 101, 118, 101, 34, 44, 34, 97,
        116, 116, 114, 105, 98, 117, 116, 101, 115, 34, 58, 123, 34, 101,
        108, 101, 109, 101, 110, 116, 34, 58, 34, 34, 125, 125>>,
      JObj(<<<<"targetId", JStr("Q1")>>, <<"operationId",
        JStr("retrieve")>>, <<"attributes", JObj(<<<<"element",
        JStr("")>>>>)>>>>), TRUE),
    \* {"operationId":2}
    JsonEntry(
      <<123, 34, 111, 112, 101, 114, 97, 116, 105, 111, 110, 73, 100, 34,
        58, 50, 125>>,
      JObj(<<<<"operationId", JInt(2)>>>>), TRUE),
    \* {"targetId":"Q1","operationId":1}
    JsonEntry(
      <<123, 34, 116, 97, 114, 103, 101, 116, 73, 100, 34, 58, 34, 81, 49,
        34, 44, 34, 111, 112, 101, 114, 97, 116, 105, 111, 110, 73, 100,
        34, 58, 49, 125>>,
      JObj(<<<<"targetId", JStr("Q1")>>, <<"operationId", JInt(1)>>>>), TRUE),
    \* {"target_id":"Q1","operation_id":"hello"}
    JsonEntry(
      <<123, 34, 116, 97, 114, 103, 101, 116, 95, 105, 100, 34, 58, 34, 81,
        49, 34, 44, 34, 111, 112, 101, 114, 97, 116, 105, 111, 110, 95,
        105, 100, 34, 58, 34, 104, 101, 108, 108, 111, 34, 125>>,
      JObj(<<<<"target_id", JStr("Q1")>>, <<"operation_id",
        JStr("hello")>>>>), TRUE),
    \* {"targetId":"Q1","operationId":5}
    JsonEntry(
      <<123, 34, 116, 97, 114, 103, 101, 116, 73, 100, 34, 58, 34, 81, 49,
        34, 44, 34, 111, 112, 101, 114, 97, 116, 105, 111, 110, 73, 100,
        34, 58, 53, 125>>,
      JObj(<<<<"targetId", JStr("Q1")>>, <<"operationId", JInt(5)>>>>), TRUE),
    \* {"targetId":"Q1","operationId":"invoke","workflow":"equation_extraction"}
    JsonEntry(
      <<123, 34, 116, 97, 114, 103, 101, 116, 73, 100, 34, 58, 34, 81, 49,
        34, 44, 34, 111, 112, 101, 114, 97, 116, 105, 111, 110, 73, 100,
        34, 58, 34, 105, 110, 118, 111, 107, 101, 34, 44, 34, 119, 111,
        114, 107, 102, 108, 111, 119, 34, 58, 34, 101, 113, 117, 97, 116,
        105, 111, 110, 95, 101, 120, 116, 114, 97, 99, 116, 105, 111, 110,
        34, 125>>,
      JObj(<<<<"targetId", JStr("Q1")>>, <<"operationId", JStr("invoke")>>,
        <<"workflow", JStr("equation_extraction")>>>>), TRUE),
    \* {"targetId":"Q1","operationId":5,"attributes":{"workflow":"w"}}
    JsonEntry(
      <<123, 34, 116, 97, 114, 103, 101, 116, 73, 100, 34, 58, 34, 81, 49,
        34, 44, 34, 111, 112, 101, 114, 97, 116, 105, 111, 110, 73, 100,
        34, 58, 53, 44, 34, 97, 116, 116, 114, 105, 98, 117, 116, 101, 115,
        34, 58, 123, 34, 119, 111, 114, 107, 102, 108, 111, 119, 34, 58,
        34, 119, 34, 125, 125>>,
      JObj(<<<<"targetId", JStr("Q1")>>, <<"operationId", JInt(5)>>,
        <<"attributes", JObj(<<<<"workflow", JStr("w")>>>>)>>>>), TRUE),
    \* {"targetId":"Q1","operationId":4}
    JsonEntry(
      <<123, 34, 116, 97, 114, 103, 101, 116, 73, 100, 34, 58, 34, 81, 49,
        34, 44, 34, 111, 112, 101, 114, 97, 116, 105, 111, 110, 73, 100,
        34, 58, 52, 125>>,
      JObj(<<<<"targetId", JStr("Q1")>>, <<"operationId", JInt(4)>>>>), TRUE),
    \* {"targetId":"Q1","operationId":"describe"}
    JsonEntry(
      <<123, 34, 116, 97, 114, 103, 101, 116, 73, 100, 34, 58, 34, 81, 49,
        34, 44, 34, 111, 112, 101, 114, 97, 116, 105, 111, 110, 73, 100,
        34, 58, 34, 100, 101, 115, 99, 114, 105, 98, 101, 34, 125>>,
      JObj(<<<<"targetId", JStr("Q1")>>, <<"operationId",
        JStr("describe")>>>>), TRUE)
  }

\* json.dumps(data, separators=(",", ":"), ensure_ascii=False).encode("utf-8")
JsonDumps(data) ==
  (CHOOSE e \in JsonTable : e.val = data /\ e.canon).text

\* json.loads(body.decode("utf-8"))
JsonLoads(body) ==
  IF ~Utf8Valid(body) THEN [st |-> "UnicodeDecodeError", val |-> JNone]
  ELSE IF \E e \in JsonTable : e.text = body
  THEN [st |-> "ok", val |-> (CHOOSE e \in JsonTable : e.text = body).val]
  ELSE [st |-> "JSONDecodeError", val |-> JNone]

\* ------------------------------------------- protocol.py: data classes
ComponentBlock(component_id, content, media_type, declared_size) ==
  [component_id |-> component_id, content |-> content,
   media_type |-> media_type, declared_size |-> declared_size]

DOIPMessage(version, msg_type, operation, flags, object_id, metas, comps, wfs) ==
  [version |-> version, msg_type |-> msg_type, operation |-> operation,
   flags |-> flags, object_id |-> object_id, metadata_blocks |-> metas,
   component_blocks |-> comps, workflow_blocks |-> wfs]

NoMsg == DOIPMessage(0, 0, 0, 0, <<>>, <<>>, <<>>, <<>>)

\* ------------------------------------------------ protocol.py: encode
FrameBlock(block_type, body) == <<block_type>> \o PackU32(Len(body)) \o body

encode_metadata_block(data) == FrameBlock(BLOCK_METADATA, JsonDumps(data))

encode_workflow_block(data) == FrameBlock(BLOCK_WORKFLOW, JsonDumps(data))

\* encode_component_block without the content-length field
encode_component_block_nolen(block) ==
  LET comp_id_bytes == Utf8Encode(block.component_id)
      media_bytes == Utf8Encode(block.media_type)
  IN FrameBlock(BLOCK_COMPONENT,
       PackU16(Len(comp_id_bytes)) \o comp_id_bytes
       \o PackU16(Len(media_bytes)) \o media_bytes
       \o block.content)

encode_component_block(block) ==
  LET comp_id_bytes == Utf8Encode(block.component_id)
      media_bytes == Utf8Encode(block.media_type)
      content == block.content
  IN FrameBlock(BLOCK_COMPONENT,
       PackU16(Len(comp_id_bytes)) \o comp_id_bytes
       \o PackU16(Len(media_bytes)) \o media_bytes
       \o PackU32(Len(content)) \o content)

HeaderPack(version, msg_type, operation, flags, object_id_len, payload_len) ==
  <<version, msg_type, operation, flags>>
  \o PackU16(object_id_len) \o PackU32(payload_len)

\* to_bytes without the loop over workflow_blocks
to_bytes_noworkflow(m) ==
  LET payload ==
        Concat([i \in 1..Len(m.metadata_blocks) |->
                  encode_metadata_block(m.metadata_blocks[i])])
        \o Concat([i \in 1..Len(m.component_blocks) |->
                     encode_component_block(m.component_blocks[i])])
      obj_bytes == Utf8Encode(m.object_id)
  IN HeaderPack(m.version, m.msg_type, m.operation, m.flags,
                Len(obj_bytes), Len(payload))
     \o obj_bytes \o payload

to_bytes(m) ==
  LET payload ==
        Concat([i \in 1..Len(m.metadata_blocks) |->
                  encode_metadata_block(m.metadata_blocks[i])])
        \o Concat([i \in 1..Len(m.component_blocks) |->
                     encode_component_block(m.component_blocks[i])])
        \o Concat([i \in 1..Len(m.workflow_blocks) |->
                     encode_workflow_block(m.workflow_blocks[i])])
      obj_bytes == Utf8Encode(m.object_id)
  IN HeaderPack(m.version, m.msg_type, m.operation, m.flags,
                Len(obj_bytes), Len(payload))
     \o obj_bytes \o payload

\* ------------------------------------------------ protocol.py: decode
\* The outcome of a decoding step: st is "ok" or the name of the exception
\* raised, detail is str(exc) for a ProtocolError.
CompResult(st, detail, block) == [st |-> st, detail |-> detail, block |-> block]
NoComp == ComponentBlock(<<>>, <<>>, <<>>, NoneSize)

_decode_component_block(body) ==
  IF Len(body) < 8 THEN CompResult("ProtocolError", "Component block too small", NoComp)
  ELSE
    LET comp_id_len == UnpackU16(body, 0)
        comp_id_bytes == Slice(body, 2, 2 + comp_id_len)
        off1 == 2 + comp_id_len
    IN IF ~Utf8Valid(comp_id_bytes) THEN CompResult("UnicodeDecodeError", "", NoComp)
       ELSE IF off1 + 2 > Len(body) THEN CompResult("struct.error", "", NoComp)
       ELSE
         LET media_len == UnpackU16(body, off1)
             media_bytes == Slice(body, off1 + 2, off1 + 2 + media_len)
             off2 == off1 + 2 + media_len
         IN IF ~Utf8Valid(media_bytes) THEN CompResult("UnicodeDecodeError", "", NoComp)
            ELSE IF off2 + 4 > Len(body) THEN CompResult("struct.error", "", NoComp)
            ELSE
              LET content_len == UnpackU32(body, off2)
                  content == Slice(body, off2 + 4, off2 + 4 + content_len)
              IN IF Len(content) # content_len
                 THEN CompResult("ProtocolError", "Component content length mismatch", NoComp)
                 ELSE CompResult("ok", "",
                        ComponentBlock(comp_id_bytes, content,
                          IF media_bytes = <<>> THEN OctetStream ELSE media_bytes,
                          content_len))

WalkResult(st, detail, metas, comps, wfs, offset) ==
  [st |-> st, detail |-> detail, metas |-> metas, comps |-> comps,
   wfs |-> wfs, offset |-> offset]
WalkFail(st, detail) == WalkResult(st, detail, <<>>, <<>>, <<>>, 0)

\* if end > len(payload) (never taken, as a slip would have it)
BlockBodyTruncated_never(end, payload) == FALSE

BlockBodyTruncated(end, payload) == end > Len(payload)

\* The block loop of read_doip_message, from `offset` on.
RECURSIVE WalkBlocks(_, _, _, _, _)
WalkBlocks(payload, offset, metas, comps, wfs) ==
  IF ~(offset < Len(payload)) THEN WalkResult("ok", "", metas, comps, wfs, offset)
  ELSE IF offset + 5 > Len(payload)
  THEN WalkFail("ProtocolError", "Truncated DOIP block header")
  ELSE
    LET block_type == payload[offset + 1]
        block_len == UnpackU32(payload, offset + 1)
        end == offset + 5 + block_len
        block_body == Slice(payload, offset + 5, end)
    IN IF BlockBodyTruncated(end, payload)
       THEN WalkFail("ProtocolError", "Truncated DOIP block body")
       ELSE IF block_type = BLOCK_METADATA THEN
         LET j == JsonLoads(block_body)
         IN IF j.st # "ok" THEN WalkFail(j.st, "")
            ELSE WalkBlocks(payload, end, Append(metas, j.val), comps, wfs)
       ELSE IF block_type = BLOCK_WORKFLOW THEN
         LET j == JsonLoads(block_body)
         IN IF j.st # "ok" THEN WalkFail(j.st, "")
            ELSE WalkBlocks(payload, end, metas, comps, Append(wfs, j.val))
       ELSE IF block_type = BLOCK_COMPONENT THEN
         LET c == _decode_component_block(block_body)
         IN IF c.st # "ok" THEN WalkFail(c.st, c.detail)
            ELSE WalkBlocks(payload, end, metas, Append(comps, c.block), wfs)
       ELSE WalkFail("ProtocolError", "Unknown block type " \o ToString(block_type))

\* The outcome of read_doip_message on a stream holding `buf`, at EOF or not:
\* st is "ok", "blocked" (a readexactly still waits for bytes) or the
\* exception; rest is what the stream holds after an "ok"; consumed is the
\* block loop's final offset.
ReadResult(st, detail, msg, rest, consumed) ==
  [st |-> st, detail |-> detail, msg |-> msg, rest |-> rest, consumed |-> consumed]
ReadFail(st, detail) == ReadResult(st, detail, NoMsg, <<>>, 0)
Short(eof) == ReadFail(IF eof THEN "IncompleteReadError" ELSE "blocked", "")

\* if version != DOIP_VERSION (never taken, as a slip would have it)
VersionUnsupported_never(version) == FALSE

VersionUnsupported(version) == version # DOIP_VERSION

read_doip_message(buf, eof) ==
  IF Len(buf) < HEADER_SIZE THEN Short(eof)
  ELSE
    LET version == buf[1]
        msg_type == buf[2]
        operation == buf[3]
        flags == buf[4]
        object_id_len == UnpackU16(buf, 4)
        payload_len == UnpackU32(buf, 6)
    IN IF VersionUnsupported(version)
       THEN ReadFail("ProtocolError", "Unsupported DOIP version " \o ToString(version))
       ELSE IF Len(buf) < HEADER_SIZE + object_id_len THEN Short(eof)
       ELSE
         LET object_id_bytes == SubSeq(buf, HEADER_SIZE + 1, HEADER_SIZE + object_id_len)
         IN IF ~Utf8Valid(object_id_bytes) THEN ReadFail("UnicodeDecodeError", "")
            ELSE IF Len(buf) < HEADER_SIZE + object_id_len + payload_len THEN Short(eof)
            ELSE
              LET payload == SubSeq(buf, HEADER_SIZE + object_id_len + 1,
                                    HEADER_SIZE + object_id_len + payload_len)
                  Walked(w) ==
                    IF w.st # "ok" THEN ReadFail(w.st, w.detail)
                    ELSE ReadResult("ok", "",
                           DOIPMessage(version, msg_type, operation, flags,
                                       object_id_bytes, w.metas, w.comps, w.wfs),
                           SubSeq(buf, HEADER_SIZE + object_id_len + payload_len + 1,
                                  Len(buf)),
                           w.offset)
              IN Walked(WalkBlocks(payload, 0, <<>>, <<>>, <<>>))

\* ------------------------------------------------ doip_client/protocol.py
\* encode_doip_block(block_type, body)
encode_doip_block(block_type, body) == <<block_type>> \o PackU32(Len(body)) \o body

\* The client's _decode_component_block
client_decode_component_block(body) ==
  IF Len(body) < 8 THEN CompResult("ValueError", "Component block too small", NoComp)
  ELSE
    LET comp_id_len == UnpackU16(body, 0)
        comp_id == Slice(body, 2, 2 + comp_id_len)
        offset1 == 2 + comp_id_len
    IN IF ~Utf8Valid(comp_id) THEN CompResult("UnicodeDecodeError", "", NoComp)
       ELSE IF offset1 + 2 > Len(body) THEN CompResult("struct.error", "", NoComp)
       ELSE
         LET media_len == UnpackU16(body, offset1)
             media_type == Slice(body, offset1 + 2, offset1 + 2 + media_len)
             offset2 == offset1 + 2 + media_len
         IN IF ~Utf8Valid(media_type) THEN CompResult("UnicodeDecodeError", "", NoComp)
            ELSE IF offset2 + 4 > Len(body) THEN CompResult("struct.error", "", NoComp)
            ELSE
              LET content_len == UnpackU32(body, offset2)
                  content == Slice(body, offset2 + 4, offset2 + 4 + content_len)
              IN IF Len(content) # content_len
                 THEN CompResult("ValueError", "Component content length mismatch",
                                 NoComp)
                 ELSE CompResult("ok", "",
                        ComponentBlock(comp_id, content,
                          IF media_type = <<>> THEN OctetStream ELSE media_type,
                          content_len))

\* if end > payload_len
ClientBodyTruncated(end, payload_len) == end > payload_len

\* The loop of decode_doip_blocks, from `offset` on
RECURSIVE DecodeBlocksFrom(_, _, _, _, _)
DecodeBlocksFrom(payload, offset, metadata_blocks, component_blocks, workflow_blocks) ==
  IF ~(offset < Len(payload))
  THEN WalkResult("ok", "", metadata_blocks, component_blocks, workflow_blocks, offset)
  ELSE IF offset + 5 > Len(payload)
  THEN WalkFail("ValueError", "Truncated DOIP block header")
  ELSE
    LET block_type == payload[offset + 1]
        block_len == UnpackU32(payload, offset + 1)
        end == offset + 5 + block_len
        block_body == Slice(payload, offset + 5, end)
    IN IF ClientBodyTruncated(end, Len(payload))
       THEN WalkFail("ValueError", "Truncated DOIP block body")
       ELSE IF block_type = BLOCK_METADATA THEN
         LET j == JsonLoads(block_body)
         IN IF j.st # "ok" THEN WalkFail(j.st, "")
            ELSE DecodeBlocksFrom(payload, end, Append(metadata_blocks, j.val),
                                  component_blocks, workflow_blocks)
       ELSE IF block_type = BLOCK_WORKFLOW THEN
         LET j == JsonLoads(block_body)
         IN IF j.st # "ok" THEN WalkFail(j.st, "")
            ELSE DecodeBlocksFrom(payload, end, metadata_blocks, component_blocks,
                                  Append(workflow_blocks, j.val))
       ELSE IF block_type = BLOCK_COMPONENT THEN
         LET c == client_decode_component_block(block_body)
         IN IF c.st # "ok" THEN WalkFail(c.st, c.detail)
            ELSE DecodeBlocksFrom(payload, end, metadata_blocks,
                                  Append(component_blocks, c.block), workflow_blocks)
       ELSE WalkFail("ValueError", "Unknown DOIP block type " \o ToString(block_type))

decode_doip_blocks(payload) == DecodeBlocksFrom(payload, 0, <<>>, <<>>, <<>>)

\* -------------------------------------------------- doip_client/client.py
\* StrictDOIPClient._encode_component_body
_encode_component_body(block) ==
  PackU16(Len(Utf8Encode(block.component_id))) \o Utf8Encode(block.component_id)
  \o PackU16(Len(Utf8Encode(block.media_type))) \o Utf8Encode(block.media_type)
  \o PackU32(Len(block.content)) \o block.content

\* send_message: the bytes it sends for a request, whose header.op_code and
\* header.flags are the message's operation and flags
SentBytes(request) ==
  LET Framed(object_id_bytes, payload) ==
        HeaderPack(DOIP_VERSION, MSG_TYPE_REQUEST, request.operation, request.flags,
                   Len(object_id_bytes), Len(payload))
        \o object_id_bytes \o payload
  IN Framed(Utf8Encode(request.object_id),
            Concat([i \in 1..Len(request.metadata_blocks) |->
                      encode_doip_block(BLOCK_METADATA,
                                        JsonDumps(request.metadata_blocks[i]))])
            \o Concat([i \in 1..Len(request.component_blocks) |->
                         encode_doip_block(BLOCK_COMPONENT,
                           _encode_component_body(request.component_blocks[i]))])
            \o Concat([i \in 1..Len(request.workflow_blocks) |->
                         encode_doip_block(BLOCK_WORKFLOW,
                                           JsonDumps(request.workflow_blocks[i]))]))

\* A DoipResponse, or the exception send_message raises: header is the
\* version byte of the Header it carries
ClientResult(st, detail, version, metas, comps, wfs) ==
  [st |-> st, detail |-> detail, version |-> version, metadata_blocks |-> metas,
   component_blocks |-> comps, workflow_blocks |-> wfs]
ClientFail(st, detail) == ClientResult(st, detail, 0, <<>>, <<>>, <<>>)
NoResponse == ClientFail("none", "")
SocketClosed == ClientFail("ConnectionError",
                           "Socket closed before receiving expected bytes")

\* send_message: what it returns or raises when the socket delivers `buf` and
\* is then closed by the peer
ReceivedResponse(buf) ==
  IF Len(buf) < HEADER_SIZE THEN SocketClosed
  ELSE
    LET Decoded(version, blocks) ==
          IF blocks.st # "ok" THEN ClientFail(blocks.st, blocks.detail)
          ELSE ClientResult("ok", "", version, blocks.metas, blocks.comps, blocks.wfs)
        Payload(version, start, payload_len) ==
          IF Len(buf) < start + payload_len THEN SocketClosed
          ELSE Decoded(version, decode_doip_blocks(SubSeq(buf, start + 1,
                                                          start + payload_len)))
    IN IF Len(buf) < HEADER_SIZE + UnpackU16(buf, 4) THEN SocketClosed
       ELSE Payload(buf[1], HEADER_SIZE + UnpackU16(buf, 4), UnpackU32(buf, 6))

\* ====================================================================
\* The codec run on bounded inputs (SpecCodec)
\* ====================================================================
\*   client_wire      the bytes StrictDOIPClient.send_message sends for message
\*   client_response  what send_message makes of the bytes in wire
VARIABLES phase, message, shape, wire, parsed, rewire, client_wire, client_response

\* The state of one connection of the strict listener (handle_connection):
\*   inbuf     bytes the peer has sent that the reader has not consumed
\*   eof       the peer has closed its sending side
\*   sent      number of frames the peer has sent
\*   pc        where handle_connection stands
\*   request   msg, the message being served
\*   response  the envelope dispatch produced for it
\*   exc       the exception that ended the read loop, name "" for none
\*   written   the envelopes handed to writer.write, in order
\*   flushed   how many of them writer.drain has flushed
\*   requests  the messages read_doip_message has returned, in order
\*   calls     the handlers dispatch has called, with the msg-type they got
\*   _manifest_cache  ObjectRegistry._manifest_cache
VARIABLES inbuf, eof, sent, pc, request, response, exc, written, flushed,
          requests, calls, _manifest_cache

connVars ==
  <<inbuf, eof, sent, pc, request, response, exc, written, flushed, requests,
    calls, _manifest_cache>>

\* The state of one connection of the compatibility listener
\* (handle_compat_connection); it shares the stream, the writer and the
\* registry above and adds:
\*   segments           what _read_segments returned for the request
\*   response_segments  what _process_compat_request returned
\*   received           the segments the peer reads back from the stream
VARIABLES segments, response_segments, received

compatVars == <<segments, response_segments, received>>

\* What a read of the segment framing gives: st is "ok", "blocked" (the
\* stream has no more bytes yet) or the exception's name, val the segments
\* read so far, rest the bytes after the terminator
SegmentsRead(st, val, rest) == [st |-> st, val |-> val, rest |-> rest]

\* Nothing read back yet
NotRead == SegmentsRead("none", <<>>, <<>>)

\* The calls of ObjectRegistry.fetch_fdo_object and the FDO facade they ask:
\*   fetches  one record per call, in the order the calls were made
\*   remote   the manifest the facade serves now, by identifier
\*   services the answers of the services during the call under study
\*   returned what that call returned or raised
\*   _lock    ObjectRegistry._lock: the call that holds it, 0 when it is free
\*   contacted  the services get_component has asked, in order
VARIABLES fetches, remote, services, returned, _lock, contacted

registryVars == <<fetches, remote, services, returned, _lock, contacted>>

\* The blob store's module state and one call of its functions:
\*   _CFG        storage_lakefs._CFG["lakefs"], branch "" when none is set
\*   args        object_id, component_id, media_type, extension of the call
\*   shard_result  what shard_qid(object_id) returned or raised
\*   put_result  what put_component_bytes returned or raised
\*   get_result  what get_component_bytes returned or raised
VARIABLES _CFG, args, shard_result, put_result, get_result

storageVars == <<_CFG, args, shard_result, put_result, get_result>>

\* configure() was not given a branch
NoConfig == [branch |-> ""]

\* No call of the blob store's functions yet
NoArgs == [object_id |-> <<>>, component_id |-> <<>>, media_type |-> "",
           extension |-> ""]
NotCalled == [st |-> "none", detail |-> "", val |-> <<>>]

StorageIdle ==
  /\ _CFG = NoConfig
  /\ args = NoArgs
  /\ shard_result = NotCalled
  /\ put_result = NotCalled
  /\ get_result = NotCalled

\* Every service answers
AllUp ==
  [fdo |-> "ok", probe |-> TRUE, blob |-> "ok", put |-> TRUE, wiki |-> TRUE,
   download |-> TRUE]

\* No call yet
NotReturned == [st |-> "none", detail |-> "", val |-> <<>>, cache |-> <<>>]

\* The identifiers "Q1" and "Q2" of the facade, which serves Manifest for both
RegistryKeys == {<<81, 49>>, <<81, 50>>}
FacadeAtStart == [k \in RegistryKeys |-> Manifest]

\* No exception
NoExc == [name |-> "", detail |-> ""]

\* A connection that has just been accepted, with an empty registry
ConnInit ==
  /\ inbuf = <<>>
  /\ eof = FALSE
  /\ sent = 0
  /\ pc = "READ"
  /\ request = NoMsg
  /\ response = NoMsg
  /\ exc = NoExc
  /\ written = <<>>
  /\ flushed = 0
  /\ requests = <<>>
  /\ calls = <<>>
  /\ _manifest_cache = <<>>
  /\ segments = <<>>
  /\ response_segments = <<>>
  /\ received = NotRead
  /\ fetches = <<>>
  /\ remote = FacadeAtStart
  /\ services = AllUp
  /\ returned = NotReturned
  /\ _lock = 0
  /\ contacted = <<>>
  /\ StorageIdle

codecVars ==
  <<phase, message, shape, wire, parsed, rewire, client_wire, client_response>>

\* All sequences over S of length 0..n
RECURSIVE SeqsUpTo(_, _)
SeqsUpTo(S, n) ==
  IF n = 0 THEN {<<>>}
  ELSE LET shorter == SeqsUpTo(S, n - 1)
       IN shorter \cup {Append(s, x) : s \in {q \in shorter : Len(q) = n - 1}, x \in S}

\* "Q1", "c", "a/b"
StrQ1 == <<81, 49>>
StrC == <<99>>
StrAB == <<97, 47, 98>>

\* --- messages built in memory
JsonObjects == {EmptyObj, ObjAB}
Components ==
  { ComponentBlock(StrC, <<7>>, StrAB, 1),
    ComponentBlock(StrC, <<7>>, StrAB, NoneSize),
    ComponentBlock(StrC, <<7, 8>>, <<>>, 2),
    ComponentBlock(StrC, <<>>, <<>>, NoneSize) }
Messages ==
  { DOIPMessage(DOIP_VERSION, mt, op, 0, oid, metas, comps, wfs) :
      mt \in {MSG_TYPE_REQUEST, MSG_TYPE_RESPONSE, MSG_TYPE_ERROR},
      op \in {OP_HELLO, 153},
      oid \in {<<>>, StrQ1},
      metas \in SeqsUpTo(JsonObjects, MaxJsonBlocks),
      comps \in SeqsUpTo(Components, MaxCompBlocks),
      wfs \in SeqsUpTo(JsonObjects, MaxJsonBlocks) }

\* --- byte strings crafted block by block
\* A raw block: its type byte, its body, `over` = declared length minus the
\* body's length; for a component body the declared lengths and the bytes
\* that follow each of them.
RawBlock(type, body, over, idlen, id, mlen, media, clen, content, extra) ==
  [type |-> type, body |-> body, over |-> over, idlen |-> idlen, id |-> id,
   mlen |-> mlen, media |-> media, clen |-> clen, content |-> content,
   extra |-> extra]
RawJson(type, text, over) ==
  RawBlock(type, text, over, 0, <<>>, 0, <<>>, 0, <<>>, <<>>)
RawComp(idlen, id, mlen, media, clen, content, extra) ==
  RawBlock(BLOCK_COMPONENT,
           PackU16(idlen) \o id \o PackU16(mlen) \o media
           \o PackU32(clen) \o content \o extra,
           0, idlen, id, mlen, media, clen, content, extra)

TextObj == <<123, 125>>
TextObjSpace == <<123, 32, 125>>
TextBrace == <<123>>
TextFF == <<255>>

RawBlocks ==
  { RawJson(t, x, 0) : t \in {BLOCK_METADATA, BLOCK_WORKFLOW},
                       x \in {TextObj, TextObjSpace, TextBrace, TextFF} }
  \cup { RawJson(BLOCK_METADATA, TextObj, 1), RawJson(9, <<>>, 0),
         RawJson(BLOCK_COMPONENT, <<0, 0, 0>>, 0) }
  \cup { RawComp(1, StrC, 3, StrAB, 1, <<7>>, <<>>),
         RawComp(1, StrC, 0, <<>>, 1, <<7>>, <<>>),
         RawComp(1, StrC, 3, StrAB, 1, <<7>>, <<0>>),
         RawComp(1, StrC, 3, StrAB, 2, <<7>>, <<>>),
         RawComp(50, StrC, 3, StrAB, 1, <<7>>, <<>>),
         RawComp(1, StrC, 50, StrAB, 1, <<7>>, <<>>) }

Trailings == {<<>>, <<1>>, <<1, 0, 0, 0>>}

NoShape == [kind |-> "none", blocks |-> <<>>, trailing |-> <<>>, vsub |-> FALSE]
RawShapes ==
  { [kind |-> "crafted", blocks |-> bs, trailing |-> tr, vsub |-> FALSE] :
      bs \in SeqsUpTo(RawBlocks, MaxRawBlocks), tr \in Trailings }

RawPayload(sh) ==
  Concat([i \in 1..Len(sh.blocks) |->
            <<sh.blocks[i].type>>
            \o PackU32(Len(sh.blocks[i].body) + sh.blocks[i].over)
            \o sh.blocks[i].body])
  \o sh.trailing

RawBytes(sh) ==
  HeaderPack(DOIP_VERSION, MSG_TYPE_REQUEST, OP_HELLO, 0, Len(StrQ1),
             Len(RawPayload(sh)))
  \o StrQ1 \o RawPayload(sh)

BadVersions == {0, 3, 255}

CodecStart ==
  /\ phase = "start"
  /\ message = NoMsg
  /\ shape = NoShape
  /\ wire = <<>>
  /\ parsed = ReadFail("none", "")
  /\ rewire = <<>>
  /\ client_wire = <<>>
  /\ client_response = NoResponse

CodecInit == CodecStart /\ ConnInit

\* A message is built in memory (tests/server/test_protocol.py).
BuildMessage ==
  /\ phase = "start"
  /\ \E m \in Messages : message' = m
  /\ phase' = "built"
  /\ UNCHANGED <<shape, wire, parsed, rewire>>
  /\ UNCHANGED <<client_wire, client_response>>
  /\ UNCHANGED <<connVars, compatVars, registryVars, storageVars>>

\* payload = message.to_bytes()
Encode ==
  /\ phase = "built"
  /\ wire' = to_bytes(message)
  /\ shape' = [NoShape EXCEPT !.kind = "encoded"]
  /\ phase' = "wire"
  /\ UNCHANGED <<message, parsed, rewire>>
  /\ UNCHANGED <<client_wire, client_response>>
  /\ UNCHANGED <<connVars, compatVars, registryVars, storageVars>>

\* A peer sends bytes of its own making.
CraftWire ==
  /\ phase = "start"
  /\ \E sh \in RawShapes : shape' = sh /\ wire' = RawBytes(sh)
  /\ phase' = "wire"
  /\ UNCHANGED <<message, parsed, rewire>>
  /\ UNCHANGED <<client_wire, client_response>>
  /\ UNCHANGED <<connVars, compatVars, registryVars, storageVars>>

\* The last byte of an encoded message is lost.
Truncate ==
  /\ phase = "wire"
  /\ shape.kind = "encoded"
  /\ ~shape.vsub
  /\ wire' = SubSeq(wire, 1, Len(wire) - 1)
  /\ shape' = [shape EXCEPT !.kind = "truncated"]
  /\ UNCHANGED <<phase, message, parsed, rewire>>
  /\ UNCHANGED <<client_wire, client_response>>
  /\ UNCHANGED <<connVars, compatVars, registryVars, storageVars>>

\* The header's version byte is replaced.
SubstituteVersion ==
  /\ phase = "wire"
  /\ ~shape.vsub
  /\ Len(wire) >= HEADER_SIZE
  /\ \E v \in BadVersions : wire' = [wire EXCEPT ![1] = v]
  /\ shape' = [shape EXCEPT !.vsub = TRUE]
  /\ UNCHANGED <<phase, message, parsed, rewire>>
  /\ UNCHANGED <<client_wire, client_response>>
  /\ UNCHANGED <<connVars, compatVars, registryVars, storageVars>>

\* reader.feed_data(payload); reader.feed_eof(); read_doip_message(reader)
Decode ==
  /\ phase = "wire"
  /\ parsed' = read_doip_message(wire, TRUE)
  /\ phase' = "decoded"
  /\ UNCHANGED <<message, shape, wire, rewire>>
  /\ UNCHANGED <<client_wire, client_response>>
  /\ UNCHANGED <<connVars, compatVars, registryVars, storageVars>>

\* parsed.to_bytes()
ReEncode ==
  /\ phase = "decoded"
  /\ parsed.st = "ok"
  /\ rewire' = to_bytes(parsed.msg)
  /\ phase' = "reencoded"
  /\ UNCHANGED <<message, shape, wire, parsed>>
  /\ UNCHANGED <<client_wire, client_response>>
  /\ UNCHANGED <<connVars, compatVars, registryVars, storageVars>>

\* The reference client sends the message as a request: send_message up to
\* sock.sendall(message)
SendMessage ==
  /\ phase = "built"
  /\ client_wire' = SentBytes(message)
  /\ phase' = "sent"
  /\ UNCHANGED <<message, shape, wire, parsed, rewire, client_response>>
  /\ UNCHANGED <<connVars, compatVars, registryVars, storageVars>>

\* The reference client is given the same bytes as a response: send_message
\* from _recv_exact on, the socket closed after the bytes
ReceiveResponse ==
  /\ phase = "decoded"
  /\ client_response' = ReceivedResponse(wire)
  /\ phase' = "received"
  /\ UNCHANGED <<message, shape, wire, parsed, rewire, client_wire>>
  /\ UNCHANGED <<connVars, compatVars, registryVars, storageVars>>

CodecNext ==
  \/ BuildMessage
  \/ Encode
  \/ CraftWire
  \/ Truncate
  \/ SubstituteVersion
  \/ Decode
  \/ ReEncode
  \/ SendMessage
  \/ ReceiveResponse

vars == <<codecVars, connVars, compatVars, registryVars, storageVars>>

SpecCodec == CodecInit /\ [][CodecNext]_vars

\* ====================================================================
\* Claims on the codec (checked under SpecCodec)
\* ====================================================================
EncodedAndDecoded ==
  phase \in {"decoded", "reencoded"} /\ shape.kind = "encoded" /\ ~shape.vsub
CraftedAndDecoded ==
  phase \in {"decoded", "reencoded"} /\ shape.kind = "crafted" /\ ~shape.vsub

\* What the decoder gives back for a component block: an empty media type is
\* read as "application/octet-stream", declared_size as the content length.
ReadBackOf(block, got) ==
  /\ got.component_id = block.component_id
  /\ got.content = block.content
  /\ got.media_type = (IF block.media_type = <<>> THEN OctetStream ELSE block.media_type)
  /\ got.declared_size = Len(block.content)

\* C1 as stated: decoding the encoding of any message M built in memory,
\* components with an empty media type or no declared size included, gives
\* a message equal to M in every field.
C1_RoundTripEveryField ==
  EncodedAndDecoded => (parsed.st = "ok" /\ parsed.msg = message)

\* C1 amended: decoding the encoding of M succeeds, consumes every byte and
\* gives a message equal to M in the header fields, the object-id, the
\* metadata and workflow lists and each component's id and content; a
\* component's media type is read back as application/octet-stream when it
\* was empty and its declared_size as the content length, so the result
\* equals M exactly when every component of M has a non-empty media type
\* and declared_size = len(content).
C1_RoundTripUpToComponentDefaults ==
  EncodedAndDecoded =>
    /\ parsed.st = "ok"
    /\ parsed.rest = <<>>
    /\ parsed.msg.version = message.version
    /\ parsed.msg.msg_type = message.msg_type
    /\ parsed.msg.operation = message.operation
    /\ parsed.msg.flags = message.flags
    /\ parsed.msg.object_id = message.object_id
    /\ parsed.msg.metadata_blocks = message.metadata_blocks
    /\ parsed.msg.workflow_blocks = message.workflow_blocks
    /\ Len(parsed.msg.component_blocks) = Len(message.component_blocks)
    /\ \A i \in 1..Len(message.component_blocks) :
         ReadBackOf(message.component_blocks[i], parsed.msg.component_blocks[i])
    /\ (parsed.msg = message) <=>
         \A i \in 1..Len(message.component_blocks) :
           /\ message.component_blocks[i].media_type # <<>>
           /\ message.component_blocks[i].declared_size
                = Len(message.component_blocks[i].content)

C1_Witness ==
  /\ EncodedAndDecoded
  /\ parsed.st = "ok"
  /\ Len(message.component_blocks) = 2
  /\ message.component_blocks[1].media_type = <<>>
  /\ message.component_blocks[2].declared_size = NoneSize
  /\ message.metadata_blocks # <<>>
  /\ message.workflow_blocks # <<>>
  /\ parsed.msg # message

\* A raw component block whose declared lengths are those of the bytes
\* present: body length = 2+|id|+2+|media-type|+4+|content|.
ExactComponent(b) ==
  /\ b.idlen = Len(b.id)
  /\ b.mlen = Len(b.media)
  /\ b.clen = Len(b.content)
  /\ Len(b.body) = 2 + Len(b.id) + 2 + Len(b.media) + 4 + Len(b.content)

\* The byte string is in the form to_bytes emits.
CanonicalBlock(b) ==
  /\ b.over = 0
  /\ b.type \in {BLOCK_METADATA, BLOCK_WORKFLOW} => b.body \in {TextObj}
  /\ b.type = BLOCK_COMPONENT => (ExactComponent(b) /\ b.media # <<>>)
CanonicalWire ==
  IF shape.kind = "crafted"
  THEN /\ shape.trailing = <<>>
       /\ \A i \in 1..Len(shape.blocks) : CanonicalBlock(shape.blocks[i])
       /\ \A i \in 1..Len(shape.blocks) : \A k \in 1..Len(shape.blocks) :
            i < k => shape.blocks[i].type <= shape.blocks[k].type
  ELSE \A i \in 1..Len(message.component_blocks) :
         message.component_blocks[i].media_type # <<>>

\* C2 as stated: re-encoding the message decoded from any byte string S that
\* decodes gives exactly S, whatever the order of block types and the
\* media-type fields in S.
C2_ReencodeGivesSameBytes ==
  (phase = "reencoded" /\ ~shape.vsub) => rewire = wire

\* C2 amended: re-encoding the message decoded from S gives a byte string
\* that decodes to that same message, and it equals S exactly when S is in
\* the encoder's own form: blocks in the order metadata, components,
\* workflows, compact JSON bodies, non-empty component media types and no
\* byte after a component's content.
C2_ReencodeIsCanonicalForm ==
  (phase = "reencoded" /\ ~shape.vsub) =>
    /\ read_doip_message(rewire, TRUE).st = "ok"
    /\ read_doip_message(rewire, TRUE).msg = parsed.msg
    /\ read_doip_message(rewire, TRUE).rest = <<>>
    /\ (rewire = wire) <=> CanonicalWire

C2_Witness ==
  /\ phase = "reencoded"
  /\ shape.kind = "crafted"
  /\ Len(shape.blocks) = 2
  /\ shape.blocks[1].type = BLOCK_WORKFLOW
  /\ shape.blocks[2].type = BLOCK_METADATA
  /\ rewire # wire
  /\ Len(rewire) = Len(wire)

\* C3: decoding a well-formed wire message with its last byte removed
\* fails with ProtocolError (MalformedFrame).
C3_TruncationIsMalformedFrame ==
  (phase = "decoded" /\ shape.kind = "truncated" /\ ~shape.vsub)
    => parsed.st = "ProtocolError"

\* C4: a component block decodes only if its body length is exactly
\* 2+|id|+2+|media-type|+4+|content|, and a body whose declared lengths
\* disagree with the bytes present fails with ProtocolError.
C4_ComponentLengthsExact ==
  CraftedAndDecoded =>
    /\ parsed.st = "ok" =>
         \A i \in 1..Len(shape.blocks) :
           shape.blocks[i].type = BLOCK_COMPONENT => ExactComponent(shape.blocks[i])
    /\ ( /\ Len(shape.blocks) = 1
         /\ shape.trailing = <<>>
         /\ shape.blocks[1].type = BLOCK_COMPONENT
         /\ ~ExactComponent(shape.blocks[1]) )
       => parsed.st = "ProtocolError"

\* A raw block that the block loop accepts.
ValidBlock(b) ==
  /\ b.over = 0
  /\ b.type \in {BLOCK_METADATA, BLOCK_COMPONENT, BLOCK_WORKFLOW}
  /\ b.type \in {BLOCK_METADATA, BLOCK_WORKFLOW} => b.body \in {TextObj, TextObjSpace}
  /\ b.type = BLOCK_COMPONENT => ExactComponent(b)

\* C5: the block walk succeeds only if it consumes exactly payload-length
\* bytes: 1 to 4 bytes after the last block, or a last block whose declared
\* length runs past the payload, give ProtocolError, and on success the sum
\* of 5 + block length over the blocks is the header's payload-length.
C5_WalkConsumesExactlyPayload ==
  CraftedAndDecoded =>
    /\ parsed.st = "ok" =>
         /\ parsed.consumed = UnpackU32(wire, 6)
         /\ shape.trailing = <<>>
         /\ Len(parsed.msg.metadata_blocks) + Len(parsed.msg.component_blocks)
              + Len(parsed.msg.workflow_blocks) = Len(shape.blocks)
         /\ Len(Concat([i \in 1..Len(shape.blocks) |->
                          [k \in 1..(5 + Len(shape.blocks[i].body) + shape.blocks[i].over)
                             |-> 0]]))
              = UnpackU32(wire, 6)
    /\ ( /\ Len(shape.trailing) \in 1..4
         /\ \A i \in 1..Len(shape.blocks) : ValidBlock(shape.blocks[i]) )
       => (parsed.st = "ProtocolError" /\ parsed.detail = "Truncated DOIP block header")
    /\ ( /\ shape.blocks # <<>>
         /\ shape.blocks[Len(shape.blocks)].over > Len(shape.trailing)
         /\ \A i \in 1..(Len(shape.blocks) - 1) : ValidBlock(shape.blocks[i]) )
       => (parsed.st = "ProtocolError" /\ parsed.detail = "Truncated DOIP block body")

C5_Witness ==
  /\ CraftedAndDecoded
  /\ Len(shape.blocks) = 2
  /\ ValidBlock(shape.blocks[1])
  /\ shape.blocks[2].over > 0
  /\ shape.trailing = <<>>
  /\ parsed.st = "ProtocolError"

\* C6: decoding a frame whose version byte is not 0x02 fails with
\* ProtocolError, whatever the rest of the header, the object-id and the
\* payload are.
C6_BadVersionIsMalformedFrame ==
  (phase = "decoded" /\ Len(wire) >= HEADER_SIZE /\ wire[1] # DOIP_VERSION)
    => (parsed.st = "ProtocolError"
        /\ parsed.detail = "Unsupported DOIP version " \o ToString(wire[1]))

C6_Witness ==
  /\ phase = "decoded"
  /\ shape.kind = "truncated"
  /\ shape.vsub
  /\ wire[1] = 255
  /\ parsed.st = "ProtocolError"

\* ====================================================================
\* The server: handlers, registry, storage, dispatch (doip_server/)
\* ====================================================================
\* ----------------------------------------------------- str <-> text
\* The printable ASCII characters, from " " (32) to "~" (126); the backquote
\* (96), which no string of the model holds, is written "?"
Ascii ==
  <<" ", "!", "\"", "#", "$", "%", "&", "'", "(", ")", "*", "+",
    ",", "-", ".", "/", "0", "1", "2", "3", "4", "5", "6", "7",
    "8", "9", ":", ";", "<", "=", ">", "?", "@", "A", "B", "C",
    "D", "E", "F", "G", "H", "I", "J", "K", "L", "M", "N", "O",
    "P", "Q", "R", "S", "T", "U", "V", "W", "X", "Y", "Z", "[",
    "\\", "]", "^", "_", "?", "a", "b", "c", "d", "e", "f", "g",
    "h", "i", "j", "k", "l", "m", "n", "o", "p", "q", "r", "s",
    "t", "u", "v", "w", "x", "y", "z", "{", "|", "}", "~">>

\* chr(c)
Chr(c) == Ascii[c - 31]

\* The str of a sequence of code points, as a string of the model
RECURSIVE Text(_)
Text(cp) ==
  IF cp = <<>> THEN ""
  ELSE IF Len(cp) = 1 THEN Chr(cp[1])
  ELSE LET half == Len(cp) \div 2
       IN Text(SubSeq(cp, 1, half)) \o Text(SubSeq(cp, half + 1, Len(cp)))

\* The strings whose code points the server needs (component ids, media
\* types, object ids)
KnownTexts ==
  {
    \* ""
    <<>>,
    \* "Q1"
    <<81, 49>>,
    \* "c"
    <<99>>,
    \* "d", "e", "x/y"
    <<100>>,
    <<101>>,
    <<120, 47, 121>>,
    \* ".png", ".jpg", ".svg", ".txt", "txt"
    <<46, 112, 110, 103>>,
    <<46, 106, 112, 103>>,
    <<46, 115, 118, 103>>,
    <<46, 116, 120, 116>>,
    <<116, 120, 116>>,
    \* "rocrate"
    <<114, 111, 99, 114, 97, 116, 101>>,
    \* "a/b"
    <<97, 47, 98>>,
    \* "primary"
    <<112, 114, 105, 109, 97, 114, 121>>,
    \* "application/zip"
    <<97, 112, 112, 108, 105, 99, 97, 116, 105, 111, 110, 47, 122, 105,
      112>>,
    \* "application/json"
    <<97, 112, 112, 108, 105, 99, 97, 116, 105, 111, 110, 47, 106, 115,
      111, 110>>,
    \* "application/pdf"
    <<97, 112, 112, 108, 105, 99, 97, 116, 105, 111, 110, 47, 112, 100,
      102>>,
    \* "doip:bitstream/Q1/equations-json"
    <<100, 111, 105, 112, 58, 98, 105, 116, 115, 116, 114, 101, 97, 109,
      47, 81, 49, 47, 101, 113, 117, 97, 116, 105, 111, 110, 115, 45, 106,
      115, 111, 110>>,
    \* ".bin"
    <<46, 98, 105, 110>>,
    \* ".pdf"
    <<46, 112, 100, 102>>,
    \* ".json"
    <<46, 106, 115, 111, 110>>,
    \* "json"
    <<106, 115, 111, 110>>,
    \* "pdf"
    <<112, 100, 102>>,
    \* "doip:bitstream/"
    <<100, 111, 105, 112, 58, 98, 105, 116, 115, 116, 114, 101, 97, 109,
      47>>,
    \* "/equations-json"
    <<47, 101, 113, 117, 97, 116, 105, 111, 110, 115, 45, 106, 115, 111,
      110>>,
    \* "application/octet-stream"
    <<97, 112, 112, 108, 105, 99, 97, 116, 105, 111, 110, 47, 111, 99, 116,
      101, 116, 45, 115, 116, 114, 101, 97, 109>>,
    \* "doip:bitstream/q1/equations-json"
    <<100, 111, 105, 112, 58, 98, 105, 116, 115, 116, 114, 101, 97,
      109, 47, 113, 49, 47, 101, 113, 117, 97, 116, 105, 111, 110,
      115, 45, 106, 115, 111, 110>>
  }

\* The code points of a string of the model
TextPairs == {<<Text(cp), cp>> : cp \in KnownTexts}
Chars(s) == (CHOOSE p \in TextPairs : p[1] = s)[2]

\* str.upper() on ASCII
Upper(s) == [i \in 1..Len(s) |-> IF s[i] \in 97..122 THEN s[i] - 32 ELSE s[i]]

\* f"{v}" of a JSON value that is a str or an int
PyFormat(v) == IF v.t = "str" THEN v.s ELSE ToString(v.n)

\* str(KeyError(text)): the repr of the single argument
KeyErrorStr(text) == "'" \o text \o "'"

\* bool(v) of a JSON value
\* (every value taken for true, as a slip would have it)
Truthy_always(v) == TRUE

Truthy(v) ==
  CASE v.t = "none" -> FALSE
    [] v.t = "str" -> v.s # ""
    [] v.t = "int" -> v.n # 0
    [] OTHER -> v.kv # <<>>

\* A call's outcome: st is "ok" or the name of the exception raised, detail
\* is str(exc), val the value returned.
Ok(val) == [st |-> "ok", detail |-> "", val |-> val]
Raise(name, detail) == [st |-> name, detail |-> detail, val |-> <<>>]

\* ------------------------------------------------ doip_shared/sharding.py
IsDigit(c) == c \in 48..57
AllDigits(s) == s # <<>> /\ \A i \in 1..Len(s) : IsDigit(s[i])

\* (no padding, as a slip would have it)
Zfill_none(s, width) == s

\* str.zfill(width)
Zfill(s, width) ==
  IF Len(s) >= width THEN s ELSE [i \in 1..(width - Len(s)) |-> 48] \o s

shard_qid(qid) ==
  LET normalized == Upper(qid)
  IN IF normalized = <<>> \/ normalized[1] # 81
     THEN Raise("ValueError", "QID must start with 'Q'")
     ELSE LET digits == Tail(normalized)
          IN IF ~AllDigits(digits)
             THEN Raise("ValueError", "QID must contain digits after 'Q'")
             ELSE LET padded == Zfill(digits, 6)
                  IN Ok(Text(Slice(padded, 0, 2)) \o "/" \o Text(Slice(padded, 2, 4))
                        \o "/" \o Text(Slice(padded, 4, 6)) \o "/" \o Text(normalized))

\* str.lstrip(".")
RECURSIVE LstripDot(_)
LstripDot(ext) ==
  IF ext # <<>> /\ Head(ext) = 46 THEN LstripDot(Tail(ext)) ELSE ext

get_component_path(qid, component_id, extension) ==
  LET ext == LstripDot(extension)
      prefix == shard_qid(qid)
  IN IF prefix.st # "ok" THEN prefix
     ELSE Ok(IF ext # <<>>
             THEN prefix.val \o "/components/" \o Text(component_id) \o "." \o Text(ext)
             ELSE prefix.val \o "/components/" \o Text(component_id))

\* ------------------------------------------------------ the environment
\* What the services behind the server answer during one request: fdo is
\* what the FDO facade does ("ok": it serves the manifest, "down": no
\* connection, "timeout": no answer within the client's 10 seconds), probe
\* whether the lakeFS endpoint is configured and reachable, blob what
\* get_object does ("ok": it returns the object, "missing": it raises
\* NoSuchKey, "error": it raises anything else), put whether put_object
\* succeeds, wiki whether the Wikibase API is reachable, download whether the
\* GET of a distribution URL succeeds.
Envs ==
  [fdo : {"ok", "down", "timeout"}, probe : BOOLEAN,
   blob : {"ok", "missing", "error"}, put : BOOLEAN, wiki : BOOLEAN,
   download : BOOLEAN]

\* The bytes the blob store holds for a component's key ("%PDF")
BlobBytes == <<37, 80, 68, 70>>

\* json.dumps(_mock_extract_equations(pdf_bytes)).encode("utf-8")
EquationsJson ==
  <<91, 123, 34, 112, 97, 103, 101, 34, 58, 32, 49, 44, 32, 34, 108, 97,
    116, 101, 120, 34, 58, 32, 34, 69, 61, 109, 99, 94, 50, 34, 125, 44,
    32, 123, 34, 112, 97, 103, 101, 34, 58, 32, 50, 44, 32, 34, 108, 97,
    116, 101, 120, 34, 58, 32, 34, 92, 92, 92, 92, 105, 110, 116, 95, 97,
    94, 98, 32, 102, 40, 120, 41, 32, 100, 120, 34, 125, 93>>

\* mediawiki_client._generate_qid(): the item id of one run
NewItemId == "Q1762221600a1b2c3"

\* The exceptions of the HTTP and S3 clients, by name and str()
FdoFailure == Raise("ConnectError", "All connection attempts failed")
FdoTimeout == Raise("ReadTimeout", "")
PutFailure == Raise("EndpointConnectionError", "Could not connect to the endpoint URL")
WikiFailure == Raise("ConnectionError", "Max retries exceeded")

\* --------------------------------------------- doip_server/storage_lakefs.py
\* The first index of obj[1:] that holds no digit, counted as the loop counts i
RECURSIVE DigitsEnd(_, _)
DigitsEnd(obj, i) ==
  IF i < Len(obj) /\ IsDigit(obj[i + 1]) THEN DigitsEnd(obj, i + 1) ELSE i

_extract_qid(object_id) ==
  LET obj == Upper(object_id)
  IN IF obj = <<>> \/ obj[1] # 81
     THEN Raise("ValueError", "invalid identifier: must start with Q")
     ELSE LET qid == Slice(obj, 0, DigitsEnd(obj, 1))
          IN IF Len(qid) = 1
             THEN Raise("ValueError", "invalid identifier: no digits after Q")
             ELSE Ok(qid)

\* _TYPE_SUFFIX_MAP
TypeSuffix(media_type) ==
  CASE media_type = "application/pdf" -> ".pdf"
    [] media_type = "image/png" -> ".png"
    [] media_type = "image/jpeg" -> ".jpg"
    [] media_type = "image/svg+xml" -> ".svg"
    [] media_type = "application/json" -> ".json"
    [] OTHER -> ""

\* (the caller's extension not looked at, as a slip would have it)
_extension_from_media_type_noOverride(media_type, explicit_extension) ==
  IF media_type # "" /\ TypeSuffix(media_type) # "" THEN TypeSuffix(media_type)
  ELSE ".bin"

\* media_type and extension are strings of the model, "" for None
_extension_from_media_type(media_type, explicit_extension) ==
  IF explicit_extension # ""
  THEN IF Chars(explicit_extension)[1] = 46 THEN explicit_extension
       ELSE "." \o explicit_extension
  ELSE IF media_type # "" /\ TypeSuffix(media_type) # "" THEN TypeSuffix(media_type)
  ELSE ".bin"

\* _branch(): lakefs_cfg.get("branch") or "main"
Branch == IF _CFG.branch # "" THEN _CFG.branch ELSE "main"

build_object_key(qid, component_id, extension) ==
  LET Keyed(path) == IF path.st # "ok" THEN path ELSE Ok(Branch \o "/" \o path.val)
  IN Keyed(get_component_path(qid, component_id, Chars(extension)))

\* The bytes of the stored component "rocrate" (an empty ZIP's signature)
StoredCrate == <<80, 75, 5, 6>>

\* What get_object returns for a key of the store
StoredObject(component_id) ==
  IF component_id = Chars("primary") \/ component_id = Chars("c") THEN BlobBytes
  ELSE IF component_id = Chars("rocrate") THEN StoredCrate
  ELSE EquationsJson

get_component_bytes(env, object_id, component_id, media_type, extension) ==
  LET GetObject(key) ==
        IF key.st # "ok" THEN key
        ELSE IF env.blob # "ok"
        THEN Raise("KeyError", KeyErrorStr("S3 object not found: " \o key.val))
        ELSE Ok(StoredObject(component_id))
      WithQid(qid) ==
        IF qid.st # "ok" THEN qid
        ELSE GetObject(build_object_key(qid.val, component_id,
                         _extension_from_media_type(media_type, extension)))
  IN WithQid(_extract_qid(object_id))

put_component_bytes(env, object_id, component_id, data, media_type, extension) ==
  LET PutObject(key) ==
        IF key.st # "ok" THEN key
        ELSE IF ~env.put THEN PutFailure
        ELSE key
      WithQid(qid) ==
        IF qid.st # "ok" THEN qid
        ELSE PutObject(build_object_key(qid.val, component_id,
                         _extension_from_media_type(media_type, extension)))
  IN WithQid(_extract_qid(object_id))

ensure_lakefs_available(env) == env.probe

\* -------------------------------------------- doip_server/object_registry.py
\* A registry call's outcome together with the manifest cache it leaves
Res(r, cache) == [st |-> r.st, detail |-> r.detail, val |-> r.val, cache |-> cache]

\* ObjectRegistry._fetch_manifest: the FDO facade serves Manifest for every
\* identifier, or the request fails
_fetch_manifest(env, qid) ==
  IF env.fdo = "ok" THEN Ok(Manifest)
  ELSE IF env.fdo = "timeout" THEN FdoTimeout
  ELSE FdoFailure

\* ObjectRegistry.fetch_fdo_object; cache is _manifest_cache
fetch_fdo_object(cache, env, pid0) ==
  LET pid == Upper(pid0)
  IN IF pid \in DOMAIN cache THEN Res(Ok(cache[pid]), cache)
     ELSE LET data == _fetch_manifest(env, pid)
          IN IF data.st # "ok" THEN Res(data, cache)
             ELSE Res(data, (pid :> data.val) @@ cache)

\* The first item of a list that satisfies the loop's test, None without one
RECURSIVE FirstComponent(_, _)
FirstComponent(items, component_id) ==
  IF items = <<>> THEN JNone
  ELSE LET comp == Head(items)[2]
       IN IF comp.t = "obj" /\ JGet(comp, "componentId") = component_id THEN comp
          ELSE FirstComponent(Tail(items), component_id)

_find_component(component_id, manifest) ==
  LET kernel == IF manifest.t = "obj" THEN JGet(manifest, "kernel") ELSE JNone
      components == IF kernel.t = "obj" THEN JGet(kernel, "fdo:hasComponent") ELSE JNone
  IN IF components.t # "arr" THEN JNone
     ELSE FirstComponent(components.kv, component_id)

\* (mimeType not looked at, as a slip would have it)
_component_media_type_noMime(component) ==
  IF Truthy(JGet(component, "mediaType")) THEN JGet(component, "mediaType")
  ELSE JStr("application/octet-stream")

_component_media_type(component) ==
  IF Truthy(JGet(component, "mediaType")) THEN JGet(component, "mediaType")
  ELSE IF Truthy(JGet(component, "mimeType")) THEN JGet(component, "mimeType")
  ELSE JStr("application/octet-stream")

\* "." in location, and location.rsplit(".", 1)[-1]
HasDot(s) == \E i \in 1..Len(s) : s[i] = 46
AfterLastDot(s) ==
  LET last == CHOOSE i \in 1..Len(s) : s[i] = 46 /\ \A j \in (i + 1)..Len(s) : s[j] # 46
  IN SubSeq(s, last + 1, Len(s))

\* The extension as a string of the model, "" for None
_component_extension(component, media_type) ==
  LET location == JGet(component, "location")
  IN IF location.t = "str" /\ HasDot(Chars(location.s))
     THEN Text(AfterLastDot(Chars(location.s)))
     ELSE IF Slice(Chars(media_type.s), 0, 15) = Chars("application/pdf") THEN "pdf"
     ELSE IF media_type = JStr("application/json") THEN "json"
     ELSE ""

\* ObjectRegistry.get_component: val is <<content, media_type>>
get_component(cache, env, object_id, component_id) ==
  LET missing == Raise("KeyError",
                   KeyErrorStr("component-not-found:" \o PyFormat(component_id)))
      Fetched(content, media_type, m) ==
        IF content.st = "ok"
        THEN Res(Ok(<<content.val, media_type>>), m.cache)
        ELSE IF content.st = "KeyError" THEN Res(missing, m.cache)
        ELSE Res(Raise("RuntimeError", "storage-backend error"), m.cache)
      Typed(component, media_type, m) ==
        IF ~ensure_lakefs_available(env)
        THEN Res(Raise("ConnectionError", ""), m.cache)
        ELSE Fetched(get_component_bytes(env, object_id, Chars(component_id.s),
                       media_type.s, _component_extension(component, media_type)),
                     media_type, m)
      Found(component, m) ==
        IF component = JNone THEN Res(missing, m.cache)
        ELSE Typed(component, _component_media_type(component), m)
      WithManifest(m) ==
        IF m.st # "ok" THEN m
        ELSE Found(_find_component(component_id, m.val), m)
  IN WithManifest(fetch_fdo_object(cache, env, object_id))

\* ------------------------------------------------ doip_server/workflows.py
create_equation_item(env) == IF env.wiki THEN Ok(NewItemId) ELSE WikiFailure

run_equation_extraction_workflow(env, qid, params) ==
  LET derived_component_id == Chars("doip:bitstream/") \o qid \o Chars("/equations-json")
      Created(s3_key, new_item_id) ==
        IF new_item_id.st # "ok" THEN new_item_id
        ELSE Ok(JObj(<<
               <<"workflow", JStr("equation_extraction")>>,
               <<"sourceObject", JStr(Text(qid))>>,
               <<"derivedComponents", JArr(<< <<"", JObj(<<
                   <<"componentId", JStr(Text(derived_component_id))>>,
                   <<"mediaType", JStr("application/json")>>,
                   <<"s3Key", JStr(s3_key.val)>>,
                   <<"size", JInt(Len(EquationsJson))>> >>)>> >>)>>,
               <<"createdItems", JArr(<< <<"", JStr(new_item_id.val)>> >>)>> >>))
      Stored(s3_key) ==
        IF s3_key.st # "ok" THEN s3_key
        ELSE Created(s3_key, create_equation_item(env))
      Extracted(pdf_bytes) ==
        IF pdf_bytes.st # "ok" THEN pdf_bytes
        ELSE Stored(put_component_bytes(env, qid, derived_component_id, EquationsJson,
                                        "application/json", "json"))
  IN Extracted(get_component_bytes(env, qid, Chars("primary"), "application/pdf", ""))

\* ------------------------------------------------- doip_server/handlers.py
\* A response of a handler: version 2, msg-type response, flags 0
Response(operation, object_id, metas, comps, wfs) ==
  DOIPMessage(DOIP_VERSION, MSG_TYPE_RESPONSE, operation, 0, object_id, metas, comps, wfs)

\* meta.get(key) on a metadata block that json.loads decoded: a list has no get
NoGet == Raise("AttributeError", "'list' object has no attribute 'get'")

\* handle_hello builds its metadata block from protocol.OP_DESCRIBE, a name
\* the module protocol does not define
handle_hello(cache, env, msg) ==
  Res(Raise("AttributeError",
            "module 'doip_server.protocol' has no attribute 'OP_DESCRIBE'"), cache)

\* (the object id upper-cased as handle_retrieve does, as a slip would have it)
handle_list_ops_upper(cache, env, msg) ==
  Res(Ok(Response(OP_LIST_OPS, Upper(msg.object_id), <<ListOpsBlock>>, <<>>, <<>>)), cache)

handle_list_ops(cache, env, msg) ==
  Res(Ok(Response(OP_LIST_OPS, msg.object_id, <<ListOpsBlock>>, <<>>, <<>>)), cache)

\* dist.get("contentUrl") or dist.get("contentURL") or dist.get("url")
DistUrl(dist) ==
  IF Truthy(JGet(dist, "contentUrl")) THEN JGet(dist, "contentUrl")
  ELSE IF Truthy(JGet(dist, "contentURL")) THEN JGet(dist, "contentURL")
  ELSE JGet(dist, "url")

\* (only the first distribution looked at, as a slip would have it)
FirstUrl_firstEntry(distributions) ==
  IF distributions = <<>> THEN JNone
  ELSE IF Head(distributions)[2].t = "obj" /\ DistUrl(Head(distributions)[2]).t = "str"
  THEN DistUrl(Head(distributions)[2])
  ELSE JNone

\* The first URL string of the distribution list, None without one
RECURSIVE FirstUrl(_)
FirstUrl(distributions) ==
  IF distributions = <<>> THEN JNone
  ELSE LET dist == Head(distributions)[2]
       IN IF dist.t = "obj" /\ DistUrl(dist).t = "str" THEN DistUrl(dist)
          ELSE FirstUrl(Tail(distributions))

\* Every failure of the lookup is swallowed and gives None
_get_source_url(cache, env, pid) ==
  LET m == fetch_fdo_object(cache, env, pid)
      profile == IF m.st = "ok" /\ m.val.t = "obj" THEN JGet(m.val, "profile") ELSE JNone
      distributions == IF profile.t = "obj" THEN JGet(profile, "distribution") ELSE JNone
  IN Res(Ok(IF distributions.t = "arr" THEN FirstUrl(distributions.kv) ELSE JNone),
         m.cache)

\* The ZIP that ROCrate.write_zip produces for a downloaded file ("PK")
CrateZip == <<80, 75>>

_build_rocrate_payload(cache, env, pid) ==
  LET Built(source_url) ==
        IF source_url.val = JNone THEN Res(Ok(<<>>), source_url.cache)
        ELSE IF ~env.download THEN Res(Ok(<<>>), source_url.cache)
        ELSE Res(Ok(CrateZip), source_url.cache)
      Stored(r) ==
        IF r.st = "ok" THEN Res(Ok(r.val[1]), r.cache)
        ELSE IF r.st \notin {"KeyError", "ConnectionError"}
        THEN Res(Raise("RuntimeError", "storage error fetching rocrate for " \o Text(pid)),
                 r.cache)
        ELSE Built(_get_source_url(r.cache, env, pid))
  IN Stored(get_component(cache, env, pid, JStr("rocrate")))

handle_retrieve(cache, env, msg) ==
  LET pid == Upper(msg.object_id)
      meta == IF msg.metadata_blocks # <<>> THEN msg.metadata_blocks[1] ELSE EmptyObj
      element == JGet(meta, "element")
      notFound == Raise("KeyError",
                    KeyErrorStr("Component id not found: " \o PyFormat(element)))
      CrateResponse(crate) ==
        IF crate.st # "ok" THEN crate
        ELSE Res(Ok(Response(OP_RETRIEVE, pid, <<>>,
                 <<ComponentBlock(Chars("rocrate"), crate.val,
                                  Chars("application/zip"), Len(crate.val))>>,
                 <<>>)), crate.cache)
      Crate(r) ==
        CrateResponse(IF r.st = "ok" THEN Res(Ok(r.val[1]), r.cache)
                      ELSE IF r.st = "KeyError"
                      THEN _build_rocrate_payload(r.cache, env, pid)
                      ELSE Res(notFound, r.cache))
      Component(r) ==
        IF r.st # "ok" THEN Res(notFound, r.cache)
        ELSE Res(Ok(Response(OP_RETRIEVE, pid, <<>>,
                 <<ComponentBlock(Chars(element.s), r.val[1],
                                  Chars(r.val[2].s), Len(r.val[1]))>>,
                 <<>>)), r.cache)
      FdoManifest(fdo_json) ==
        IF fdo_json.st # "ok" THEN fdo_json
        ELSE Res(Ok(Response(OP_RETRIEVE, pid, <<fdo_json.val>>, <<>>, <<>>)),
                 fdo_json.cache)
  IN IF meta.t # "obj" THEN Res(NoGet, cache)
     ELSE IF element = JStr("rocrate")
     THEN Crate(get_component(cache, env, pid, JStr("rocrate")))
     ELSE IF Truthy(element)
     THEN Component(get_component(cache, env, pid, element))
     ELSE FdoManifest(fetch_fdo_object(cache, env, pid))

\* The first block of the list that has a "workflow" member, None without one
RECURSIVE FirstWorkflow(_)
FirstWorkflow(blocks) ==
  IF blocks = <<>> THEN JNone
  ELSE IF Head(blocks).t = "obj" /\ JGet(Head(blocks), "workflow") # JNone
  THEN Head(blocks)
  ELSE FirstWorkflow(Tail(blocks))

\* (every named workflow taken for equation_extraction, as a slip would have it)
_requested_workflow_anyName(msg) ==
  IF FirstWorkflow(msg.metadata_blocks) = JNone /\ FirstWorkflow(msg.workflow_blocks) = JNone
  THEN Raise("ProtocolError", "Workflow not specified in invoke request")
  ELSE Ok(<<JStr("equation_extraction"), EmptyObj>>)

\* (the workflow blocks searched before the metadata blocks, as a slip would
\* have it)
_requested_workflow_workflowFirst(msg) ==
  LET meta == FirstWorkflow(msg.metadata_blocks)
      wf == FirstWorkflow(msg.workflow_blocks)
      found == IF wf # JNone THEN wf ELSE meta
  IN IF found = JNone
     THEN Raise("ProtocolError", "Workflow not specified in invoke request")
     ELSE Ok(<<JGet(found, "workflow"),
               IF JGet(found, "params") = JNone THEN EmptyObj ELSE JGet(found, "params")>>)

\* val is <<workflow_name, params>>
_requested_workflow(msg) ==
  LET meta == FirstWorkflow(msg.metadata_blocks)
      wf == FirstWorkflow(msg.workflow_blocks)
      found == IF meta # JNone THEN meta ELSE wf
  IN IF found = JNone
     THEN Raise("ProtocolError", "Workflow not specified in invoke request")
     ELSE Ok(<<JGet(found, "workflow"),
               IF JGet(found, "params") = JNone THEN EmptyObj ELSE JGet(found, "params")>>)

\* (no derived component read back, as a slip would have it)
DerivedBlocks_none(env, qid, comps) == Ok(<<>>)

\* The derived component blocks of a workflow result, read back from storage
RECURSIVE DerivedBlocks(_, _, _)
DerivedBlocks(env, qid, comps) ==
  IF comps = <<>> THEN Ok(<<>>)
  ELSE LET comp == Head(comps)[2]
           comp_id == Chars(JGet(comp, "componentId").s)
           Blocks(content, rest) ==
             IF content.st # "ok" THEN content
             ELSE IF rest.st # "ok" THEN rest
             ELSE Ok(<<ComponentBlock(comp_id, content.val,
                                      Chars(JGet(comp, "mediaType").s),
                                      JGet(comp, "size").n)>> \o rest.val)
       IN Blocks(get_component_bytes(env, qid, comp_id, JGet(comp, "mediaType").s, ""),
                 DerivedBlocks(env, qid, Tail(comps)))

handle_invoke(cache, env, msg) ==
  LET qid == msg.object_id
      Built(wf, result, derived_blocks) ==
        IF derived_blocks.st # "ok" THEN Res(derived_blocks, cache)
        ELSE Res(Ok(Response(OP_INVOKE, qid,
                   <<InvokeBlock(wf.val[1], result.val)>>,
                   derived_blocks.val, <<result.val>>)), cache)
      Ran(wf, result) ==
        IF result.st # "ok" THEN Res(result, cache)
        ELSE Built(wf, result,
                   DerivedBlocks(env, qid, JGet(result.val, "derivedComponents").kv))
      Requested(wf) ==
        IF wf.st # "ok" THEN Res(wf, cache)
        ELSE IF wf.val[1] # JStr("equation_extraction")
        THEN Res(Raise("ProtocolError", "Unsupported workflow " \o PyFormat(wf.val[1])),
                 cache)
        ELSE Ran(wf, run_equation_extraction_workflow(env, qid, wf.val[2]))
  IN Requested(_requested_workflow(msg))

\* ----------------------------------------------------- doip_server/main.py
\* (the name read from the first block only, as a slip would have it)
_metadata_operation_name_firstBlock(metadata_blocks) ==
  IF metadata_blocks = <<>> THEN Ok(JNone)
  ELSE IF Head(metadata_blocks).t # "obj" THEN NoGet
  ELSE IF JGet(Head(metadata_blocks), "operation").t = "str"
  THEN Ok(JGet(Head(metadata_blocks), "operation"))
  ELSE Ok(JNone)

\* val is the operation name as a JSON string, None when no block has one
RECURSIVE _metadata_operation_name(_)
_metadata_operation_name(metadata_blocks) ==
  IF metadata_blocks = <<>> THEN Ok(JNone)
  ELSE LET meta == Head(metadata_blocks)
       IN IF meta.t # "obj" THEN NoGet
          ELSE IF JGet(meta, "operation").t = "str" THEN Ok(JGet(meta, "operation"))
          ELSE _metadata_operation_name(Tail(metadata_blocks))

\* A dispatch outcome: the handler's outcome and the name of the handler
\* that ran, "none" when dispatch raised before calling one
Routed(handler, r) ==
  [st |-> r.st, detail |-> r.detail, val |-> r.val, cache |-> r.cache,
   handler |-> handler]

\* The test dispatch makes before it routes
NotARequest_never(msg) == FALSE

\* (a test that refuses only responses, as a slip would have it)
NotARequest_onlyResponse(msg) == msg.msg_type = MSG_TYPE_RESPONSE

NotARequest(msg) == msg.msg_type # MSG_TYPE_REQUEST

dispatch(cache, env, msg) ==
  IF NotARequest(msg)
  THEN Routed("none", Res(Raise("ProtocolError", "Only request messages are supported"),
                          cache))
  ELSE
    LET op_name == _metadata_operation_name(msg.metadata_blocks)
    IN IF op_name.st # "ok" THEN Routed("none", Res(op_name, cache))
       ELSE IF msg.operation = OP_HELLO \/ op_name.val = JStr("hello")
       THEN Routed("handle_hello", handle_hello(cache, env, msg))
       ELSE IF msg.operation = OP_RETRIEVE \/ op_name.val = JStr("retrieve")
       THEN Routed("handle_retrieve", handle_retrieve(cache, env, msg))
       ELSE IF msg.operation = OP_INVOKE \/ op_name.val = JStr("invoke")
       THEN Routed("handle_invoke", handle_invoke(cache, env, msg))
       ELSE IF msg.operation = OP_LIST_OPS
               \/ op_name.val \in {JStr("list_ops"), JStr("list_operations")}
       THEN Routed("handle_list_ops", handle_list_ops(cache, env, msg))
       ELSE Routed("none",
              Res(Raise("ProtocolError",
                        "Unsupported operation code " \o ToString(msg.operation)), cache))

\* (an op-code the server does not know replaced by 0, as a slip would have it)
_error_message_knownOp(msg, name, detail) ==
  DOIPMessage(DOIP_VERSION, MSG_TYPE_ERROR,
              IF msg.operation \in {OP_HELLO, OP_RETRIEVE, OP_LIST_OPS, OP_INVOKE}
              THEN msg.operation ELSE 0,
              0, msg.object_id, <<ErrorBlock(name, detail)>>, <<>>, <<>>)

\* The error envelope for a request that failed
_error_message(msg, name, detail) ==
  DOIPMessage(DOIP_VERSION, MSG_TYPE_ERROR, msg.operation, 0, msg.object_id,
              <<ErrorBlock(name, detail)>>, <<>>, <<>>)

\* The envelope _send_error writes
SendErrorEnvelope(object_id, name, detail) ==
  DOIPMessage(DOIP_VERSION, MSG_TYPE_ERROR, 0, 0, object_id,
              <<ErrorBlock(name, detail)>>, <<>>, <<>>)

\* ====================================================================
\* One connection of the strict listener (Spec)
\* ====================================================================
\* A request message and its encoding
Request(operation, object_id, metas) ==
  DOIPMessage(DOIP_VERSION, MSG_TYPE_REQUEST, operation, 0, object_id, metas, <<>>, <<>>)

\* A request header followed by an object id and payload bytes of the peer's making
RawFrame(operation, object_id, payload) ==
  HeaderPack(DOIP_VERSION, MSG_TYPE_REQUEST, operation, 0, Len(object_id), Len(payload))
    \o object_id \o payload

\* An op-code the server does not know
OpUnknown == 153

HelloFrame == to_bytes(Request(OP_HELLO, StrQ1, <<>>))

\* Frames that are well formed: read_doip_message returns a message for them
GoodFrames ==
  {HelloFrame,
   \* list_ops asked by name under an unknown op-code
   to_bytes(Request(OpUnknown, <<>>, <<MetaListOps>>)),
   \* an unknown op-code and no name
   to_bytes(Request(OpUnknown, StrQ1, <<>>)),
   \* retrieve of the manifest of "q1"
   to_bytes(Request(OP_RETRIEVE, <<113, 49>>, <<>>)),
   \* retrieve of the component "c" of "Q1"
   to_bytes(Request(OP_RETRIEVE, StrQ1, <<MetaElementC>>)),
   \* invoke of equation_extraction on "Q1"
   to_bytes(Request(OP_INVOKE, StrQ1, <<MetaWorkflowEq>>)),
   \* a frame whose msg-type is response
   to_bytes(DOIPMessage(DOIP_VERSION, MSG_TYPE_RESPONSE, OP_HELLO, 0, StrQ1,
                        <<>>, <<>>, <<>>))}

\* Complete frames that read_doip_message refuses
BadFrames ==
  {\* version byte 3
   <<3>> \o Tail(HelloFrame),
   \* a metadata block whose body is "{"
   RawFrame(OP_LIST_OPS, <<>>, FrameBlock(BLOCK_METADATA, TextBrace)),
   \* a block of type 9
   RawFrame(OP_LIST_OPS, <<>>, FrameBlock(9, <<>>)),
   \* a metadata block that declares 4 body bytes and carries 2
   RawFrame(OP_LIST_OPS, <<>>, <<BLOCK_METADATA>> \o PackU32(4) \o TextObj),
   \* a component block that declares 5 content bytes and carries 1
   RawFrame(OP_RETRIEVE, StrQ1,
            FrameBlock(BLOCK_COMPONENT,
                       PackU16(1) \o StrC \o PackU16(0) \o PackU32(5) \o <<1>>))}

\* The hello frame without its last byte
TruncatedFrame == SubSeq(HelloFrame, 1, Len(HelloFrame) - 1)

ClientFrames == GoodFrames \cup BadFrames

Init == CodecStart /\ ConnInit

\* The peer sends one more frame, whatever the server is doing (pipelining).
ClientSend ==
  /\ pc # "CLOSED"
  /\ ~eof
  /\ sent < MaxFrames
  /\ \E frame \in ClientFrames : inbuf' = inbuf \o frame
  /\ sent' = sent + 1
  /\ UNCHANGED <<eof, pc, request, response, exc, written, flushed, requests, calls,
                 _manifest_cache>>
  /\ UNCHANGED <<codecVars, compatVars, registryVars, storageVars>>

\* The peer sends the beginning of a frame and closes its sending side.
ClientAbort ==
  /\ pc # "CLOSED"
  /\ ~eof
  /\ sent < MaxFrames
  /\ inbuf' = inbuf \o TruncatedFrame
  /\ sent' = sent + 1
  /\ eof' = TRUE
  /\ UNCHANGED <<pc, request, response, exc, written, flushed, requests, calls,
                 _manifest_cache>>
  /\ UNCHANGED <<codecVars, compatVars, registryVars, storageVars>>

\* The peer closes its sending side.
ClientClose ==
  /\ pc # "CLOSED"
  /\ ~eof
  /\ eof' = TRUE
  /\ UNCHANGED <<inbuf, sent, pc, request, response, exc, written, flushed, requests,
                 calls, _manifest_cache>>
  /\ UNCHANGED <<codecVars, compatVars, registryVars, storageVars>>

\* msg = await protocol.read_doip_message(reader), with the except clauses
\* of the read: IncompleteReadError leaves the loop, ProtocolError goes to
\* _send_error, any other exception leaves handle_connection through finally.
ReadMessage ==
  /\ pc = "READ"
  /\ \E r \in {read_doip_message(inbuf, eof)} :
        /\ r.st # "blocked"
        /\ IF r.st = "ok"
           THEN /\ request' = r.msg
                /\ requests' = Append(requests, r.msg)
                /\ inbuf' = r.rest
                /\ pc' = "DISPATCH"
                /\ exc' = exc
           ELSE /\ exc' = [name |-> r.st, detail |-> r.detail]
                /\ pc' = IF r.st = "ProtocolError" THEN "SEND_ERROR" ELSE "FINALLY"
                /\ UNCHANGED <<request, requests, inbuf>>
  /\ UNCHANGED <<eof, sent, response, written, flushed, calls, _manifest_cache>>
  /\ UNCHANGED <<codecVars, compatVars, registryVars, storageVars>>

\* The envelope handle_connection writes for a dispatch outcome: the
\* response, or _error_message(msg, exc) for ProtocolError and for every
\* other exception
EnvelopeFor(msg, d) ==
  IF d.st = "ok" THEN d.val ELSE _error_message(msg, d.st, d.detail)

\* response = await dispatch(msg, registry), with its except clauses
DispatchWith(env) ==
  /\ pc = "DISPATCH"
  /\ \E d \in {dispatch(_manifest_cache, env, request)} :
       /\ response' = EnvelopeFor(request, d)
       /\ calls' = IF d.handler = "none" THEN calls
                   ELSE Append(calls, [handler |-> d.handler,
                                       msg_type |-> request.msg_type,
                                       request |-> Len(requests)])
       /\ _manifest_cache' = d.cache
  /\ pc' = "WRITE"
  /\ UNCHANGED <<inbuf, eof, sent, request, exc, written, flushed, requests>>
  /\ UNCHANGED <<codecVars, compatVars, registryVars, storageVars>>

\* The services answer as they do at that moment
Dispatch == \E env \in Envs : DispatchWith(env)

\* Where handle_connection goes after writer.write(response.to_bytes())
AfterWrite_nodrain == "READ"

AfterWrite == "DRAIN"

\* writer.write(response.to_bytes())
WriteResponse ==
  /\ pc = "WRITE"
  /\ written' = Append(written, to_bytes(response))
  /\ pc' = AfterWrite
  /\ UNCHANGED <<inbuf, eof, sent, request, response, exc, flushed, requests, calls,
                 _manifest_cache>>
  /\ UNCHANGED <<codecVars, compatVars, registryVars, storageVars>>

\* Where handle_connection goes after the envelope of a request is flushed
AfterDrain_closeOnError(envelope) ==
  IF envelope.msg_type = MSG_TYPE_ERROR THEN "FINALLY" ELSE "READ"

AfterDrain(envelope) == "READ"

\* await writer.drain(), then the next turn of the loop
Drain ==
  /\ pc = "DRAIN"
  /\ flushed' = Len(written)
  /\ pc' = AfterDrain(response)
  /\ request' = NoMsg
  /\ response' = NoMsg
  /\ UNCHANGED <<inbuf, eof, sent, exc, written, requests, calls, _manifest_cache>>
  /\ UNCHANGED <<codecVars, compatVars, registryVars, storageVars>>

\* _send_error(writer, "", exc): writer.write(msg.to_bytes())
SendErrorWrite ==
  /\ pc = "SEND_ERROR"
  /\ written' = Append(written, to_bytes(SendErrorEnvelope(<<>>, exc.name, exc.detail)))
  /\ pc' = "ERR_DRAIN"
  /\ UNCHANGED <<inbuf, eof, sent, request, response, exc, flushed, requests, calls,
                 _manifest_cache>>
  /\ UNCHANGED <<codecVars, compatVars, registryVars, storageVars>>

\* _send_error: await writer.drain(), then break
SendErrorDrain ==
  /\ pc = "ERR_DRAIN"
  /\ flushed' = Len(written)
  /\ pc' = "FINALLY"
  /\ UNCHANGED <<inbuf, eof, sent, request, response, exc, written, requests, calls,
                 _manifest_cache>>
  /\ UNCHANGED <<codecVars, compatVars, registryVars, storageVars>>

\* (a handle_connection without its finally clause, as a slip would have it)
Close_missing ==
  /\ pc = "FINALLY"
  /\ UNCHANGED <<inbuf, eof, sent, pc, request, response, exc, written, flushed,
                 requests, calls, _manifest_cache>>
  /\ UNCHANGED <<codecVars, compatVars, registryVars, storageVars>>

\* finally: writer.close(); await writer.wait_closed()
Close ==
  /\ pc = "FINALLY"
  /\ pc' = "CLOSED"
  /\ UNCHANGED <<inbuf, eof, sent, request, response, exc, written, flushed, requests,
                 calls, _manifest_cache>>
  /\ UNCHANGED <<codecVars, compatVars, registryVars, storageVars>>

Next ==
  \/ ClientSend
  \/ ClientAbort
  \/ ClientClose
  \/ ReadMessage
  \/ Dispatch
  \/ WriteResponse
  \/ Drain
  \/ SendErrorWrite
  \/ SendErrorDrain
  \/ Close

Spec == Init /\ [][Next]_vars

\* The event loop runs the coroutine handle_connection whenever it can go
\* on: a read that has its bytes or the end of the stream returns, and the
\* steps after the read loop are taken. The peer is under no obligation to
\* send or to close.
FairSpec ==
  Spec /\ WF_vars(ReadMessage \/ SendErrorWrite \/ SendErrorDrain \/ Close)

\* ====================================================================
\* The connection supervisor on a first frame of any routing (SpecRouting)
\* ====================================================================
\* The metadata blocks of the first frame: no block, each operation name the
\* dispatcher knows and one it does not, a name in the second block only, a
\* first block whose "operation" is not a string, two names, and the blocks
\* the handlers read
RoutingMetas ==
  {<<>>,
   <<MetaOperation("hello")>>, <<MetaOperation("retrieve")>>,
   <<MetaOperation("invoke")>>, <<MetaListOps>>,
   <<MetaOperation("list_operations")>>, <<MetaOperation("describe")>>,
   <<EmptyObj, MetaOperation("hello")>>,
   <<JObj(<< <<"operation", JInt(1)>> >>), MetaOperation("retrieve")>>,
   <<MetaOperation("invoke"), MetaOperation("hello")>>,
   <<MetaElementC>>, <<MetaWorkflowEq>>, <<JObj(<< <<"workflow", JStr("w")>> >>)>>}

\* The op-codes of the first frame: the four the server knows and one it does not
RoutingOps == {OP_HELLO, OP_RETRIEVE, OP_LIST_OPS, OP_INVOKE, OpUnknown}

\* The first frame: a request of any op-code and metadata for "Q1" or "q1",
\* or a message of another msg-type (response, error, 0)
RoutingFrames ==
  {to_bytes(Request(op, oid, metas)) :
     op \in RoutingOps, oid \in {StrQ1, <<113, 49>>}, metas \in RoutingMetas}
  \cup
  {to_bytes(DOIPMessage(DOIP_VERSION, t, op, 0, StrQ1, metas, <<>>, <<>>)) :
     t \in {MSG_TYPE_RESPONSE, MSG_TYPE_ERROR, 0}, op \in RoutingOps,
     metas \in {<<>>, <<MetaOperation("hello")>>, <<MetaOperation("retrieve")>>}}

\* The connection is accepted and the peer's first frame is in the stream
RoutingInit ==
  /\ CodecStart
  /\ inbuf \in RoutingFrames
  /\ sent = 1
  /\ eof = FALSE
  /\ pc = "READ"
  /\ request = NoMsg
  /\ response = NoMsg
  /\ exc = NoExc
  /\ written = <<>>
  /\ flushed = 0
  /\ requests = <<>>
  /\ calls = <<>>
  /\ _manifest_cache = <<>>
  /\ segments = <<>>
  /\ response_segments = <<>>
  /\ received = NotRead
  /\ fetches = <<>>
  /\ remote = FacadeAtStart
  /\ services = AllUp
  /\ returned = NotReturned
  /\ _lock = 0
  /\ contacted = <<>>
  /\ StorageIdle

SpecRouting == RoutingInit /\ [][Next]_vars

\* ====================================================================
\* Properties of the connection supervisor
\* ====================================================================
\* byte 0 and byte 1 of an envelope, and its object-id length
VersionOf(envelope) == envelope[1]
MsgTypeOf(envelope) == envelope[2]
ObjectIdLenOf(envelope) == UnpackU16(envelope, 4)

\* handle_connection has left its read loop
Leaving == pc \in {"SEND_ERROR", "ERR_DRAIN", "FINALLY", "CLOSED"}

\* The read loop ended because a complete frame broke a rule of the codec
\* (a frame cut short by the end of the stream is IncompleteReadError)
CodecViolation == exc.name \notin {"", "IncompleteReadError"}

\* The number of envelopes written for decoded requests: _send_error's
\* envelope, written last, answers no request
OwnEnvelopes ==
  IF pc \in {"ERR_DRAIN", "FINALLY", "CLOSED"} /\ exc.name = "ProtocolError"
  THEN Len(written) - 1 ELSE Len(written)

\* The manifest caches the registry can hold
Caches == {<<>>, (StrQ1 :> Manifest)}

\* The envelope is one the supervisor can write for the request, for some
\* answer of the services behind the server and some state of the cache
IsAnswerTo(envelope, m) ==
  \E c \in Caches, env \in Envs :
    envelope = to_bytes(EnvelopeFor(m, dispatch(c, env, m)))

\* The header of the envelope names the request: its object id is the
\* request's up to case, an error envelope carries the request's op-code,
\* and a response carries the op-code of a handler
EchoesRequest(envelope, m) ==
  /\ Upper(SubSeq(envelope, HEADER_SIZE + 1, HEADER_SIZE + ObjectIdLenOf(envelope)))
       = Upper(m.object_id)
  /\ MsgTypeOf(envelope) = MSG_TYPE_ERROR => envelope[3] = m.operation
  /\ MsgTypeOf(envelope) = MSG_TYPE_RESPONSE =>
       /\ envelope[3] \in {OP_HELLO, OP_RETRIEVE, OP_LIST_OPS, OP_INVOKE}
       /\ m.operation \in {OP_HELLO, OP_RETRIEVE, OP_LIST_OPS, OP_INVOKE}
            => envelope[3] = m.operation

\* C7: when a frame breaks a codec rule, the connection ends with exactly
\* one more envelope than requests were decoded, that envelope has msg-type
\* error and an empty object id, and no handler ran for the frame.
C7_MalformedFrameGetsOneErrorEnvelope ==
  (pc = "CLOSED" /\ CodecViolation) =>
    /\ Len(written) = Len(requests) + 1
    /\ MsgTypeOf(written[Len(written)]) = MSG_TYPE_ERROR
    /\ ObjectIdLenOf(written[Len(written)]) = 0
    /\ Len(calls) <= Len(requests)

\* C8: every decoded request gets exactly one envelope, the i-th envelope
\* names the i-th request in its header and, when it is written, is an
\* envelope dispatch can produce for the i-th request; a request is read
\* only when every earlier envelope has been written and flushed.
C8_OneEnvelopePerRequestInOrder ==
  /\ pc = "READ" => OwnEnvelopes = Len(requests) /\ flushed = Len(requests)
  /\ pc \in {"DISPATCH", "WRITE"} =>
       OwnEnvelopes = Len(requests) - 1 /\ flushed = Len(requests) - 1
  /\ pc = "DRAIN" => OwnEnvelopes = Len(requests) /\ flushed = Len(requests) - 1
  /\ Leaving => OwnEnvelopes = Len(requests) /\ flushed >= Len(requests)
  /\ \A i \in 1..OwnEnvelopes : EchoesRequest(written[i], requests[i])
  /\ pc = "DRAIN" => IsAnswerTo(written[Len(written)], requests[Len(requests)])

\* Two different pipelined requests have been read and the second envelope
\* is written but not yet flushed.
C8_Witness ==
  /\ pc = "DRAIN"
  /\ Len(requests) = 2
  /\ Len(written) = 2
  /\ flushed = 1
  /\ requests[1] # requests[2]
  /\ written[1] # written[2]

\* C9: handle_connection leaves its read loop only because a read failed:
\* after an error envelope for a request (a dispatch or handler failure, a
\* message that is not a request) it is back at the read with the
\* connection open, and every request read after it still gets its envelope.
C9_DispatchFailureKeepsConnectionOpen ==
  /\ Leaving => exc.name # ""
  /\ pc = "READ" => exc.name = ""
  /\ \A i \in 1..OwnEnvelopes :
       (/\ MsgTypeOf(written[i]) = MSG_TYPE_ERROR
        /\ Len(requests) > i
        /\ pc \in {"DRAIN", "READ", "FINALLY", "CLOSED"}) => OwnEnvelopes > i

\* The first envelope is an error envelope for a request, and the request
\* after it has been read and answered with a response on the same connection.
C9_Witness ==
  /\ pc = "READ"
  /\ exc.name = ""
  /\ Len(requests) = 2
  /\ flushed = 2
  /\ MsgTypeOf(written[1]) = MSG_TYPE_ERROR
  /\ MsgTypeOf(written[2]) = MSG_TYPE_RESPONSE

\* C10: every envelope written has version 2 and msg-type response or
\* error, and every handler call got a message whose msg-type is request.
C10_OnlyRepliesOutOnlyRequestsIn ==
  /\ \A i \in 1..Len(written) :
       /\ VersionOf(written[i]) = DOIP_VERSION
       /\ MsgTypeOf(written[i]) \in {MSG_TYPE_RESPONSE, MSG_TYPE_ERROR}
       /\ MsgTypeOf(written[i]) # MSG_TYPE_REQUEST
  /\ \A i \in 1..Len(calls) : calls[i].msg_type = MSG_TYPE_REQUEST

\* A message of msg-type response has been read and answered with an error
\* envelope, and a handler has answered a request with a response.
C10_Witness ==
  /\ Len(requests) = 2
  /\ Len(written) = 2
  /\ requests[1].msg_type = MSG_TYPE_RESPONSE
  /\ MsgTypeOf(written[1]) = MSG_TYPE_ERROR
  /\ MsgTypeOf(written[2]) = MSG_TYPE_RESPONSE
  /\ Len(calls) = 1

\* ====================================================================
\* Properties of the dispatcher
\* ====================================================================
\* A handler was called for the i-th request
HandlerCalled(i) == \E k \in 1..Len(calls) : calls[k].request = i

\* The handler called for the i-th request, "none" when none was
HandlerOf(i) ==
  IF HandlerCalled(i)
  THEN calls[CHOOSE k \in 1..Len(calls) : calls[k].request = i].handler
  ELSE "none"

\* The envelope of the i-th request is written
Answered(i) == i <= OwnEnvelopes

\* C11: a message whose msg-type is not request gets the error envelope of
\* ProtocolError "Only request messages are supported", whatever its
\* op-code and metadata, and no handler is called for it.
C11_NonRequestRefusedWithProtocolError ==
  \A i \in 1..Len(requests) :
    requests[i].msg_type # MSG_TYPE_REQUEST =>
      /\ ~HandlerCalled(i)
      /\ Answered(i) =>
           written[i] = to_bytes(_error_message(requests[i], "ProtocolError",
                                                "Only request messages are supported"))

\* A message of msg-type error with op-code retrieve and the name "hello"
\* in its metadata has been refused and the refusal flushed.
C11_Witness ==
  /\ Len(requests) >= 1
  /\ requests[1].msg_type = MSG_TYPE_ERROR
  /\ requests[1].operation = OP_RETRIEVE
  /\ requests[1].metadata_blocks = <<MetaOperation("hello")>>
  /\ flushed >= 1
  /\ MsgTypeOf(written[1]) = MSG_TYPE_ERROR

\* dispatch has run for the i-th request
Dispatched(i) == i < Len(requests) \/ (i = Len(requests) /\ pc # "DISPATCH")

\* The op-codes the server knows
KnownOps == {OP_HELLO, OP_RETRIEVE, OP_LIST_OPS, OP_INVOKE}

\* The blocks of a message that carry a string "operation", by position
NamingBlocks(m) ==
  {k \in 1..Len(m.metadata_blocks) :
     /\ m.metadata_blocks[k].t = "obj"
     /\ JGet(m.metadata_blocks[k], "operation").t = "str"}

\* The operation name of the first block that carries one, "" without one
HintOf(m) ==
  IF NamingBlocks(m) = {} THEN ""
  ELSE JGet(m.metadata_blocks[CHOOSE k \in NamingBlocks(m) :
                                \A j \in NamingBlocks(m) : k <= j], "operation").s

\* The handler an operation name stands for, "none" for any other name
HandlerNamed(name) ==
  CASE name = "hello" -> "handle_hello"
    [] name = "retrieve" -> "handle_retrieve"
    [] name = "invoke" -> "handle_invoke"
    [] name \in {"list_ops", "list_operations"} -> "handle_list_ops"
    [] OTHER -> "none"

\* C12: a request whose header op-code is not a known one is routed by the
\* "operation" string of its first metadata block that has one: hello,
\* retrieve, invoke, list_ops or list_operations choose the handler.
C12_UnknownOpcodeRoutedByFirstName ==
  \A i \in 1..Len(requests) :
    (/\ Dispatched(i)
     /\ requests[i].msg_type = MSG_TYPE_REQUEST
     /\ requests[i].operation \notin KnownOps
     /\ HandlerNamed(HintOf(requests[i])) # "none")
    => HandlerOf(i) = HandlerNamed(HintOf(requests[i]))

\* A request of op-code 0x99 whose first block has a number for "operation"
\* and whose second block names retrieve has been served by handle_retrieve
\* with a response.
C12_Witness ==
  /\ Len(requests) >= 1
  /\ requests[1].operation = OpUnknown
  /\ requests[1].metadata_blocks =
       <<JObj(<< <<"operation", JInt(1)>> >>), MetaOperation("retrieve")>>
  /\ HandlerOf(1) = "handle_retrieve"
  /\ flushed >= 1
  /\ MsgTypeOf(written[1]) = MSG_TYPE_RESPONSE

\* The handler of a known op-code
HandlerOfOp(op) ==
  CASE op = OP_HELLO -> "handle_hello"
    [] op = OP_RETRIEVE -> "handle_retrieve"
    [] op = OP_INVOKE -> "handle_invoke"
    [] op = OP_LIST_OPS -> "handle_list_ops"
    [] OTHER -> "none"

\* C13: a request whose header op-code is a known one is served by the
\* handler of that op-code, whatever operation name its metadata carries.
C13_KnownOpcodeWinsOverName ==
  \A i \in 1..Len(requests) :
    (/\ Dispatched(i)
     /\ requests[i].msg_type = MSG_TYPE_REQUEST
     /\ requests[i].operation \in KnownOps)
    => HandlerOf(i) = HandlerOfOp(requests[i].operation)

\* The envelope written for the i-th request, as a peer decodes it
ReplyTo(i) == read_doip_message(written[i], TRUE).msg

\* A request of an op-code the server does not know, with no operation
\* name it knows in the metadata
UnknownOperation(m) ==
  /\ m.msg_type = MSG_TYPE_REQUEST
  /\ m.operation \notin KnownOps
  /\ HandlerNamed(HintOf(m)) = "none"

\* The workflow names the metadata blocks of a message carry
WorkflowNames(m) ==
  {JGet(m.metadata_blocks[k], "workflow").s :
     k \in {j \in 1..Len(m.metadata_blocks) :
              /\ m.metadata_blocks[j].t = "obj"
              /\ JGet(m.metadata_blocks[j], "workflow").t = "str"}}

\* An invoke request (by its header) that names a workflow, and none the
\* server has
UnknownWorkflow(m) ==
  /\ m.msg_type = MSG_TYPE_REQUEST
  /\ m.operation = OP_INVOKE
  /\ HintOf(m) \in {"", "invoke"}
  /\ WorkflowNames(m) # {}
  /\ "equation_extraction" \notin WorkflowNames(m)

OpOfHandler(handler) ==
  CASE handler = "handle_hello" -> OP_HELLO
    [] handler = "handle_retrieve" -> OP_RETRIEVE
    [] handler = "handle_invoke" -> OP_INVOKE
    [] handler = "handle_list_ops" -> OP_LIST_OPS
    [] OTHER -> 0

\* The i-th request has its envelope and it is a response
Served(i) == Answered(i) /\ MsgTypeOf(written[i]) = MSG_TYPE_RESPONSE

\* C15 as stated: a response carries the op-code of the handler that ran
\* and the object id of the request, unchanged.
C15_ResponseCopiesObjectId ==
  \A i \in 1..Len(requests) :
    Served(i) =>
      /\ HandlerCalled(i)
      /\ ReplyTo(i).operation = OpOfHandler(HandlerOf(i))
      /\ ReplyTo(i).object_id = requests[i].object_id

\* C15 amended: a response carries the op-code of the handler that ran;
\* its object id is the request's, upper-cased when the handler is
\* handle_retrieve and unchanged when it is handle_list_ops or handle_invoke.
C15_ResponseObjectIdUpperCasedByRetrieve ==
  \A i \in 1..Len(requests) :
    Served(i) =>
      /\ HandlerCalled(i)
      /\ ReplyTo(i).operation = OpOfHandler(HandlerOf(i))
      /\ ReplyTo(i).object_id =
           IF HandlerOf(i) = "handle_retrieve" THEN Upper(requests[i].object_id)
           ELSE requests[i].object_id

\* An invoke on "q1" has been answered with a response for "q1", and a
\* retrieve on "q1" after it with a response for "Q1".
C15_Witness ==
  /\ Len(requests) = 2
  /\ flushed = 2
  /\ Served(1) /\ Served(2)
  /\ HandlerOf(1) = "handle_invoke" /\ HandlerOf(2) = "handle_retrieve"
  /\ requests[1].object_id = <<113, 49>> /\ ReplyTo(1).object_id = <<113, 49>>
  /\ requests[2].object_id = <<113, 49>> /\ ReplyTo(2).object_id = StrQ1

\* The member names of a JSON object, in order
KeysOf(obj) == [k \in 1..Len(obj.kv) |-> obj.kv[k][1]]

\* C16: a request whose dispatch or handler fails (dispatch refuses it, or
\* a handler raises) gets an envelope of msg-type error, and every error
\* envelope carries the op-code of the request's header, one metadata block
\* whose members are "error" and "message", and no other block.
C16_ErrorEnvelopeShape ==
  \A i \in 1..Len(requests) :
    Answered(i) =>
      \A reply \in {ReplyTo(i)} :
        /\ reply.msg_type \in {MSG_TYPE_RESPONSE, MSG_TYPE_ERROR}
        /\ HandlerOf(i) \in {"none", "handle_hello"} => reply.msg_type = MSG_TYPE_ERROR
        /\ reply.msg_type = MSG_TYPE_ERROR =>
             /\ reply.operation = requests[i].operation
             /\ Len(reply.metadata_blocks) = 1
             /\ reply.metadata_blocks[1].t = "obj"
             /\ KeysOf(reply.metadata_blocks[1]) = <<"error", "message">>
             /\ JGet(reply.metadata_blocks[1], "error").t = "str"
             /\ JGet(reply.metadata_blocks[1], "message").t = "str"
             /\ reply.component_blocks = <<>>
             /\ reply.workflow_blocks = <<>>

\* A request of op-code 0x99 that dispatch refused, and a retrieve after it
\* whose handler raised KeyError, have both got their error envelope.
C16_Witness ==
  /\ Len(requests) = 2
  /\ flushed = 2
  /\ requests[1].msg_type = MSG_TYPE_REQUEST
  /\ requests[1].operation = OpUnknown
  /\ HandlerOf(1) = "none"
  /\ ReplyTo(1).msg_type = MSG_TYPE_ERROR
  /\ ReplyTo(1).operation = OpUnknown
  /\ HandlerOf(2) = "handle_retrieve"
  /\ ReplyTo(2).msg_type = MSG_TYPE_ERROR
  /\ JGet(ReplyTo(2).metadata_blocks[1], "error") = JStr("KeyError")

\* ====================================================================
\* The end of a connection
\* ====================================================================
\* The peer has closed and the supervisor is at its read with nothing left
\* in the stream
EofAtIdle == pc = "READ" /\ eof /\ inbuf = <<>>

\* C17: when the read ends with the end of the stream, nothing is written
\* beyond the envelopes of the requests read and no error envelope is sent;
\* an end of stream at IDLE leads to CLOSED, and so does every exit from the
\* read loop (end of stream, malformed frame, unexpected exception); a
\* closed connection stays closed and nothing is written on it.
C17_EveryExitReachesClosed ==
  /\ [](exc.name = "IncompleteReadError" =>
          /\ pc \in {"FINALLY", "CLOSED"}
          /\ Len(written) = Len(requests)
          /\ flushed = Len(written))
  /\ [][/\ (pc \in {"FINALLY", "CLOSED"}) =>
            (written' = written /\ pc' \in {"FINALLY", "CLOSED"})
        /\ (pc = "CLOSED") => (pc' = "CLOSED")]_vars
  /\ (EofAtIdle \/ Leaving) ~> (pc = "CLOSED")

\* The peer closed at IDLE after a request was served, and the connection
\* is closed with only that request's envelope written.
C17_Witness ==
  /\ pc = "CLOSED"
  /\ exc.name = "IncompleteReadError"
  /\ eof /\ inbuf = <<>>
  /\ Len(requests) = 1
  /\ Len(written) = 1
  /\ flushed = 1

\* ====================================================================
\* doip_server/main.py: the compatibility listener
\* ====================================================================
\* json.dumps(data).encode("utf-8")
_json_segment(data) == (CHOOSE e \in DefaultJson : e.val = data).text

\* await _read_segments(reader) on the bytes buf of a stream, closed when
\* the peer has closed its sending side; segs is the list built so far
RECURSIVE _read_segments(_, _, _)
_read_segments(segs, buf, closed) ==
  IF Len(buf) < 4
  THEN SegmentsRead(IF closed THEN "IncompleteReadError" ELSE "blocked", segs, buf)
  ELSE IF UnpackU32(buf, 0) = 0
  THEN SegmentsRead("ok", segs, SubSeq(buf, 5, Len(buf)))
  ELSE IF Len(buf) < 4 + UnpackU32(buf, 0)
  THEN SegmentsRead(IF closed THEN "IncompleteReadError" ELSE "blocked", segs, buf)
  ELSE _read_segments(Append(segs, SubSeq(buf, 5, 4 + UnpackU32(buf, 0))),
                      SubSeq(buf, 5 + UnpackU32(buf, 0), Len(buf)), closed)

\* The bytes _write_segments(writer, segments) hands to the writer
_write_segments(segs) ==
  Concat([i \in 1..Len(segs) |-> PackU32(Len(segs[i])) \o segs[i]]) \o PackU32(0)

\* The status object of _compat_response_from_doip
CompatStatus(msg) ==
  JObj(<< <<"status", JStr("success")>>,
          <<"metadata", JArr([i \in 1..Len(msg.metadata_blocks) |->
                                <<"", msg.metadata_blocks[i]>>])>> >>
       \o IF msg.component_blocks # <<>>
          THEN << <<"attributes",
                    JObj(<< <<"filename",
                              JStr(Text(msg.component_blocks[1].component_id))>> >>)>> >>
          ELSE <<>>)

_compat_response_from_doip(msg) ==
  <<_json_segment(CompatStatus(msg))>>
  \o [k \in 1..Len(msg.component_blocks) |-> msg.component_blocks[k].content]

\* (an `or` that never falls back, as a slip would have it)
PyOr_first(a, b) == a

\* a or b
PyOr(a, b) == IF Truthy(a) THEN a ELSE b

\* The outcome of _process_compat_request: val is the list of segments
\* returned, msg the DOIP message built ("none" handler and NoMsg when no
\* handler is called), response what the handler returned
Processed(handler, msg, r) ==
  [st |-> r.st, detail |-> r.detail, cache |-> r.cache, handler |-> handler,
   msg |-> msg, response |-> IF r.st = "ok" THEN r.val ELSE NoMsg,
   val |-> IF r.st = "ok" THEN _compat_response_from_doip(r.val) ELSE <<>>]

_process_compat_request(cache, env, body) ==
  LET Message(operation, object_id, metas) ==
        DOIPMessage(DOIP_VERSION, MSG_TYPE_REQUEST, operation, 0, object_id,
                    metas, <<>>, <<>>)
      Hello(msg) == Processed("handle_hello", msg, handle_hello(cache, env, msg))
      Retrieve(msg) ==
        Processed("handle_retrieve", msg, handle_retrieve(cache, env, msg))
      Invoke(msg) == Processed("handle_invoke", msg, handle_invoke(cache, env, msg))
      Route(target, operation, attributes, component) ==
        IF operation \in {JInt(OP_HELLO), JStr("HELLO"), JStr("hello")}
        THEN Hello(Message(OP_HELLO, target, <<MetaOperation("hello")>>))
        ELSE IF operation \in {JInt(OP_RETRIEVE), JStr("RETRIEVE"), JStr("retrieve")}
        THEN Retrieve(Message(OP_RETRIEVE, target,
                              IF Truthy(component)
                              THEN <<JObj(<< <<"components",
                                               JArr(<< <<"", component>> >>)>> >>)>>
                              ELSE <<>>))
        ELSE IF operation \in {JInt(OP_INVOKE), JStr("INVOKE"), JStr("invoke")}
        THEN Invoke(Message(OP_INVOKE, target,
               <<JObj(<< <<"workflow",
                           PyOr(PyOr(JGet(attributes, "workflow"),
                                     JGet(body, "workflow")),
                                JStr("equation_extraction"))>>,
                         <<"params",
                           PyOr(PyOr(JGet(attributes, "params"), JGet(body, "params")),
                                EmptyObj)>> >>)>>))
        ELSE [st |-> "ok", detail |-> "", cache |-> cache, handler |-> "none",
              msg |-> NoMsg, response |-> NoMsg,
              val |-> <<_json_segment(JObj(<<
                         <<"status", JStr("error")>>,
                         <<"message",
                           JStr("Unsupported operation "
                                \o IF operation.t = "none" THEN "None"
                                   ELSE PyFormat(operation))>> >>))>>]
      Attributes(attributes) ==
        IF attributes.t # "obj" THEN Processed("none", NoMsg, Res(NoGet, cache))
        ELSE Route(Chars(PyOr(PyOr(JGet(body, "targetId"), JGet(body, "target_id")),
                              JStr("")).s),
                   PyOr(JGet(body, "operationId"), JGet(body, "operation_id")),
                   attributes,
                   PyOr(JGet(attributes, "element"), JGet(attributes, "componentId")))
  IN IF body.t # "obj" THEN Processed("none", NoMsg, Res(NoGet, cache))
     ELSE Attributes(PyOr(JGet(body, "attributes"), EmptyObj))

\* ====================================================================
\* One connection of the compatibility listener (SpecCompat)
\* ====================================================================
\* The request bodies a peer sends (tests/server/test_compat.py, and the
\* fields _process_compat_request reads)
CompatBodies ==
  {
    JObj(<<<<"targetId", JStr("Q1")>>, <<"operationId", JInt(2)>>,
      <<"attributes", JObj(<<<<"element", JStr("c")>>>>)>>>>),
    JObj(<<<<"targetId", JStr("Q1")>>, <<"operationId", JStr("RETRIEVE")>>,
      <<"attributes", JObj(<<<<"componentId", JStr("c")>>>>)>>>>),
    JObj(<<<<"targetId", JStr("Q1")>>, <<"operationId", JInt(2)>>>>),
    JObj(<<<<"targetId", JStr("Q1")>>, <<"operationId", JStr("retrieve")>>,
      <<"attributes", JObj(<<<<"element", JStr("")>>>>)>>>>),
    JObj(<<<<"operationId", JInt(2)>>>>),
    JObj(<<<<"targetId", JStr("Q1")>>, <<"operationId", JInt(1)>>>>),
    JObj(<<<<"target_id", JStr("Q1")>>, <<"operation_id",
      JStr("hello")>>>>),
    JObj(<<<<"targetId", JStr("Q1")>>, <<"operationId", JInt(5)>>>>),
    JObj(<<<<"targetId", JStr("Q1")>>, <<"operationId", JStr("invoke")>>,
      <<"workflow", JStr("equation_extraction")>>>>),
    JObj(<<<<"targetId", JStr("Q1")>>, <<"operationId", JInt(5)>>,
      <<"attributes", JObj(<<<<"workflow", JStr("w")>>>>)>>>>),
    JObj(<<<<"targetId", JStr("Q1")>>, <<"operationId", JInt(4)>>>>),
    JObj(<<<<"targetId", JStr("Q1")>>, <<"operationId",
      JStr("describe")>>>>),
    JObj(<<>>)
  }

\* One segment, length-prefixed
Framed(seg) == PackU32(Len(seg)) \o seg

\* What the peer sends: a request body and the terminator; a body, a second
\* segment and the terminator; the terminator alone; a segment that is not
\* a JSON object; a body without its terminator
CompatStreams ==
  {Framed(JsonDumps(b)) \o PackU32(0) : b \in CompatBodies}
  \cup {Framed(JsonDumps(b)) \o Framed(StrC) \o PackU32(0) : b \in CompatBodies}
  \cup {PackU32(0)}
  \cup {Framed(t) \o PackU32(0) : t \in {TextBrace, TextFF, JsonDumps(ArrEmpty)}}
  \cup {Framed(JsonDumps(b)) : b \in CompatBodies}

\* The peer sends its request.
CompatClientSend ==
  /\ pc # "CLOSED"
  /\ ~eof
  /\ sent = 0
  /\ \E stream \in CompatStreams : inbuf' = inbuf \o stream
  /\ sent' = 1
  /\ UNCHANGED <<eof, pc, request, response, exc, written, flushed, requests, calls,
                 _manifest_cache>>
  /\ UNCHANGED <<codecVars, compatVars, registryVars, storageVars>>

\* segments = await _read_segments(reader), with its except clause and the
\* test `if not segments`
CompatRead ==
  /\ pc = "READ"
  /\ \E r \in {_read_segments(<<>>, inbuf, eof)} :
        /\ r.st # "blocked"
        /\ IF r.st = "ok"
           THEN /\ segments' = r.val
                /\ inbuf' = r.rest
                /\ pc' = IF r.val = <<>> THEN "FINALLY" ELSE "PROCESS"
                /\ exc' = exc
           ELSE /\ exc' = [name |-> r.st, detail |-> ""]
                /\ pc' = "FINALLY"
                /\ UNCHANGED <<segments, inbuf>>
  /\ UNCHANGED <<eof, sent, request, response, written, flushed, requests, calls,
                 _manifest_cache, response_segments, received>>
  /\ UNCHANGED <<codecVars, registryVars, storageVars>>

\* request_json = json.loads(segments[0].decode("utf-8")) with its except
\* clause, then response_segments = await _process_compat_request(...); an
\* exception of the latter leaves handle_compat_connection through finally.
CompatProcess ==
  /\ pc = "PROCESS"
  /\ \E loaded \in {JsonLoads(segments[1])} :
       IF loaded.st # "ok"
       THEN /\ exc' = [name |-> loaded.st, detail |-> ""]
            /\ pc' = "FINALLY"
            /\ UNCHANGED <<request, response, requests, calls, _manifest_cache,
                           response_segments>>
       ELSE \E env \in Envs :
              \E p \in {_process_compat_request(_manifest_cache, env, loaded.val)} :
                 /\ requests' = Append(requests, loaded.val)
                 /\ request' = p.msg
                 /\ response' = p.response
                 /\ calls' = IF p.handler = "none" THEN calls
                             ELSE Append(calls, [handler |-> p.handler,
                                                 msg_type |-> p.msg.msg_type,
                                                 request |-> Len(requests) + 1])
                 /\ _manifest_cache' = p.cache
                 /\ response_segments' = p.val
                 /\ exc' = IF p.st = "ok" THEN exc
                           ELSE [name |-> p.st, detail |-> p.detail]
                 /\ pc' = IF p.st = "ok" THEN "COMPAT_WRITE" ELSE "FINALLY"
  /\ UNCHANGED <<inbuf, eof, sent, written, flushed, segments, received>>
  /\ UNCHANGED <<codecVars, registryVars, storageVars>>

\* await _write_segments(writer, response_segments): the writes and the drain
CompatWrite ==
  /\ pc = "COMPAT_WRITE"
  /\ written' = Append(written, _write_segments(response_segments))
  /\ flushed' = Len(written) + 1
  /\ pc' = "FINALLY"
  /\ UNCHANGED <<inbuf, eof, sent, request, response, exc, requests, calls,
                 _manifest_cache>>
  /\ UNCHANGED <<codecVars, compatVars, registryVars, storageVars>>

\* The peer reads what the server has sent on the closed connection, with
\* the reader of the same framing.
PeerRead ==
  /\ pc = "CLOSED"
  /\ received = NotRead
  /\ received' = _read_segments(<<>>, Concat(SubSeq(written, 1, flushed)), TRUE)
  /\ UNCHANGED <<segments, response_segments>>
  /\ UNCHANGED <<codecVars, connVars, registryVars, storageVars>>

CompatNext ==
  \/ CompatClientSend
  \/ ClientClose
  \/ CompatRead
  \/ CompatProcess
  \/ CompatWrite
  \/ Close
  \/ PeerRead

SpecCompat == Init /\ [][CompatNext]_vars

\* ====================================================================
\* Properties of the compatibility listener
\* ====================================================================
\* The connection has delivered a request: segment 0 was a JSON object
Delivered == requests # <<>> /\ requests[1].t = "obj"

\* The handler _process_compat_request called has raised
CompatHandlerFailed == calls # <<>> /\ exc.name # ""

\* seg is the text of a JSON object {"status":"error","message":...}
IsErrorStatus(seg) ==
  \A loaded \in {JsonLoads(seg)} :
     /\ loaded.st = "ok"
     /\ loaded.val.t = "obj"
     /\ JGet(loaded.val, "status") = JStr("error")
     /\ JGet(loaded.val, "message").t = "str"

\* C18: a compat connection that delivered a request (segment 0 a JSON object,
\* then the terminator) has, when the server has closed it, received exactly
\* one framed response, one or more length-prefixed segments followed by the
\* zero-length terminator; when the operation handler failed, segment 0 of
\* that response is {"status":"error","message":...}.
C18_OneFramedResponsePerRequest ==
  (pc = "CLOSED" /\ Delivered) =>
     /\ Len(written) = 1
     /\ flushed = 1
     /\ \A back \in {_read_segments(<<>>, written[1], TRUE)} :
          /\ back.st = "ok"
          /\ back.val # <<>>
          /\ back.rest = <<>>
          /\ CompatHandlerFailed => IsErrorStatus(back.val[1])

\* {"targetId":"Q1","operationId":2,"attributes":{"element":"c"}}: a compat
\* retrieve of the component "c", which the manifest lists
RetrieveElementC ==
  JObj(<< <<"targetId", JStr("Q1")>>, <<"operationId", JInt(2)>>,
          <<"attributes", JObj(<< <<"element", JStr("c")>> >>)>> >>)

\* C19: a compat retrieve {"targetId": id, "operationId": 2, "attributes":
\* {"element": c}} that the handler served without failure (the manifest
\* lists c and the blob store holds it) is answered with segment 0 carrying
\* status success and attributes.filename = c, segment 1 equal to the
\* component's bytes, and the terminator.
C19_CompatElementIsFetched ==
  (pc = "CLOSED" /\ requests = <<RetrieveElementC>> /\ exc.name = "") =>
     /\ Len(written) = 1
     /\ \A back \in {_read_segments(<<>>, written[1], TRUE)} :
          /\ back.st = "ok"
          /\ back.rest = <<>>
          /\ Len(back.val) = 2
          /\ back.val[2] = BlobBytes
          /\ \A status \in {JsonLoads(back.val[1])} :
               /\ status.st = "ok"
               /\ JGet(status.val, "status") = JStr("success")
               /\ JGet(status.val, "attributes").t = "obj"
               /\ JGet(JGet(status.val, "attributes"), "filename") = JStr("c")

\* ====================================================================
\* The compat encoding of a handler's response (SpecSegments)
\* ====================================================================
\* The component blocks handle_retrieve builds: the stored component "c",
\* the RO-Crate of an object with nothing to package (empty bytes), and a
\* built RO-Crate
CompatComponents ==
  { ComponentBlock(StrC, BlobBytes, StrAB, Len(BlobBytes)),
    ComponentBlock(Chars("rocrate"), <<>>, Chars("application/zip"), 0),
    ComponentBlock(Chars("rocrate"), CrateZip, Chars("application/zip"),
                   Len(CrateZip)) }

\* The responses handed to _compat_response_from_doip
CompatResponses ==
  { Response(OP_RETRIEVE, StrQ1, metas, comps, <<>>) :
      metas \in {<<>>, <<Manifest>>},
      comps \in SeqsUpTo(CompatComponents, MaxCompBlocks) }

\* A handler has returned its response to _process_compat_request
SegmentsInit ==
  /\ CodecStart
  /\ inbuf = <<>>
  /\ eof = FALSE
  /\ sent = 1
  /\ pc = "ENCODE"
  /\ request = NoMsg
  /\ response \in CompatResponses
  /\ exc = NoExc
  /\ written = <<>>
  /\ flushed = 0
  /\ requests = <<>>
  /\ calls = <<>>
  /\ _manifest_cache = <<>>
  /\ segments = <<>>
  /\ response_segments = <<>>
  /\ received = NotRead
  /\ fetches = <<>>
  /\ remote = FacadeAtStart
  /\ services = AllUp
  /\ returned = NotReturned
  /\ _lock = 0
  /\ contacted = <<>>
  /\ StorageIdle

\* return _compat_response_from_doip(response)
CompatEncode ==
  /\ pc = "ENCODE"
  /\ response_segments' = _compat_response_from_doip(response)
  /\ pc' = "COMPAT_WRITE"
  /\ UNCHANGED <<inbuf, eof, sent, request, response, exc, written, flushed, requests,
                 calls, _manifest_cache, segments, received>>
  /\ UNCHANGED <<codecVars, registryVars, storageVars>>

SegmentsNext ==
  \/ CompatEncode
  \/ CompatWrite
  \/ Close
  \/ PeerRead

SpecSegments == SegmentsInit /\ [][SegmentsNext]_vars

RECURSIVE FirstSet(_, _)
FirstSet(values, default) ==
  IF values = <<>> THEN default
  ELSE IF Truthy(Head(values)) THEN Head(values)
  ELSE FirstSet(Tail(values), default)

\* The object has a member of that name
HasMember(obj, key) == \E i \in 1..Len(obj.kv) : obj.kv[i][1] = key

\* The fields of a compat request body: operation value, target, attributes
OperationOf(body) ==
  FirstSet(<<JGet(body, "operationId"), JGet(body, "operation_id")>>, JNone)
TargetOf(body) ==
  FirstSet(<<JGet(body, "targetId"), JGet(body, "target_id")>>, JStr(""))
AttributesOf(body) == FirstSet(<<JGet(body, "attributes")>>, EmptyObj)

\* The internal request the mapping is to build
MappedRequest(operation, body, metas) ==
  DOIPMessage(DOIP_VERSION, MSG_TYPE_REQUEST, operation, 0,
              Chars(TargetOf(body).s), metas, <<>>, <<>>)

\* {"components":[element]}
ComponentsBlock(element) ==
  JObj(<< <<"components", JArr(<< <<"", element>> >>)>> >>)

\* {"workflow": W, "params": P} with their defaults
WorkflowBlock(body) ==
  JObj(<< <<"workflow",
            FirstSet(<<JGet(AttributesOf(body), "workflow"), JGet(body, "workflow")>>,
                     JStr("equation_extraction"))>>,
          <<"params",
            FirstSet(<<JGet(AttributesOf(body), "params"), JGet(body, "params")>>,
                     EmptyObj)>> >>)

\* The mapping has built request for body, handing it to handler, with the
\* retrieve metadata given
MappedAs(body, operation, retrieveMetas) ==
  CASE operation \in {JInt(1), JStr("HELLO"), JStr("hello")} ->
         /\ request = MappedRequest(OP_HELLO, body, <<MetaOperation("hello")>>)
         /\ Len(calls) = 1 /\ calls[1].handler = "handle_hello"
    [] operation \in {JInt(2), JStr("RETRIEVE"), JStr("retrieve")} ->
         /\ request = MappedRequest(OP_RETRIEVE, body, retrieveMetas)
         /\ Len(calls) = 1 /\ calls[1].handler = "handle_retrieve"
    [] operation \in {JInt(5), JStr("INVOKE"), JStr("invoke")} ->
         /\ request = MappedRequest(OP_INVOKE, body, <<WorkflowBlock(body)>>)
         /\ Len(calls) = 1 /\ calls[1].handler = "handle_invoke"
    [] OTHER ->
         /\ calls = <<>>
         /\ request = NoMsg
         /\ exc.name = ""
         /\ Len(response_segments) = 1
         /\ IsErrorStatus(response_segments[1])

\* C21 as stated: the compat mapping builds the internal request by operation
\* value (hello with {"operation":"hello"}, retrieve with
\* {"components":[element]} iff attributes.element or attributes.componentId
\* is present and else no metadata, invoke with {"workflow": W, "params": P}
\* and their defaults, empty object-id without a target), and any other
\* operation value yields a single error segment and no handler call.
C21_MappingByOperationElementPresent ==
  Delivered =>
    MappedAs(requests[1], OperationOf(requests[1]),
             IF HasMember(AttributesOf(requests[1]), "element")
             THEN <<ComponentsBlock(JGet(AttributesOf(requests[1]), "element"))>>
             ELSE IF HasMember(AttributesOf(requests[1]), "componentId")
             THEN <<ComponentsBlock(JGet(AttributesOf(requests[1]), "componentId"))>>
             ELSE <<>>)

\* C21, made exact: as above, with the retrieve metadata
\* {"components":[element]} iff attributes.element or attributes.componentId
\* is present and not empty, element being the first of the two that is.
C21_MappingByOperationElementNonEmpty ==
  Delivered =>
    MappedAs(requests[1], OperationOf(requests[1]),
             IF FirstSet(<<JGet(AttributesOf(requests[1]), "element"),
                           JGet(AttributesOf(requests[1]), "componentId")>>,
                         JNone) = JNone
             THEN <<>>
             ELSE <<ComponentsBlock(
                      FirstSet(<<JGet(AttributesOf(requests[1]), "element"),
                                 JGet(AttributesOf(requests[1]), "componentId")>>,
                               JNone))>>)

\* A retrieve named "RETRIEVE" with attributes.componentId has been mapped
C21_Witness ==
  /\ Delivered
  /\ OperationOf(requests[1]) = JStr("RETRIEVE")
  /\ request.operation = OP_RETRIEVE
  /\ request.metadata_blocks = <<ComponentsBlock(JStr("c"))>>
  /\ Len(calls) = 1

\* ====================================================================
\* Overlapping calls of ObjectRegistry.fetch_fdo_object (SpecRegistry)
\* ====================================================================
\* The number of calls made
MaxCalls == 3

\* A manifest without components, which the facade may come to serve
ManifestB ==
  JObj(<< <<"kernel", JObj(<< <<"fdo:hasComponent", JArr(<<>>)>> >>)>> >>)

FacadeManifests == {Manifest, ManifestB}

\* The identifiers given to fetch_fdo_object: "Q1", "q1", "Q2"
CallPids == {<<81, 49>>, <<113, 49>>, <<81, 50>>}

\* What client.get, raise_for_status and resp.json raise: no connection, a
\* timeout after 10 seconds, a status that is not 2xx, a body that is not JSON
FetchFailures ==
  { FdoFailure,
    Raise("ReadTimeout", ""),
    Raise("HTTPStatusError", "Server error '500 Internal Server Error'"),
    Raise("JSONDecodeError", "Expecting value: line 1 column 1 (char 0)") }

\* Not there yet
NoOutcome == [st |-> "none", detail |-> "", val |-> <<>>]

\* A call fetch_fdo_object(pid) that has not run yet: pc is where it stands,
\* http what _fetch_manifest gave it, result what it returned or raised
FetchCall(pid) ==
  [pid |-> pid, pc |-> "CHECK", http |-> NoOutcome, result |-> NoOutcome]

\* pid = pid.upper()
NormalizedPid(pid) == Upper(pid)

\* (a lookup that never finds, as a slip would have it)
CacheHit_never(cache, pid) == FALSE

\* pid in self._manifest_cache
CacheHit(cache, pid) == pid \in DOMAIN cache

\* (a fetch that stores whatever came back, as a slip would have it)
AfterFetch_storeAlways(outcome) == "STORE"

\* Where fetch_fdo_object goes when _fetch_manifest has ended
AfterFetch(outcome) == IF outcome.st = "ok" THEN "STORE" ELSE "DONE"

\* A caller (a handler, get_component) calls fetch_fdo_object(pid).
FetchCalled ==
  /\ Len(fetches) < MaxCalls
  /\ \E pid \in CallPids : fetches' = Append(fetches, FetchCall(pid))
  /\ UNCHANGED <<_lock, remote, services, returned, contacted, connVars, codecVars, compatVars, storageVars>>

\* (the lock kept by a call that goes on to the facade, as a slip would have it)
LockAfterLookup_heldOverFetch(i, hit) == IF hit THEN 0 ELSE i

\* Who holds the lock when the first `async with self._lock` block is left
LockAfterLookup(i, hit) == 0

\* async with self._lock: the cache is looked up; a hit returns
CheckCache(i) ==
  /\ fetches[i].pc = "CHECK"
  /\ _lock = 0
  /\ _lock' = LockAfterLookup(i, CacheHit(_manifest_cache, NormalizedPid(fetches[i].pid)))
  /\ fetches' =
       IF CacheHit(_manifest_cache, NormalizedPid(fetches[i].pid))
       THEN [fetches EXCEPT
               ![i].pc = "DONE",
               ![i].result = Ok(_manifest_cache[NormalizedPid(fetches[i].pid)])]
       ELSE [fetches EXCEPT ![i].pc = "HTTP"]
  /\ UNCHANGED <<remote, services, returned, contacted, connVars, codecVars, compatVars, storageVars>>

\* data = await self._fetch_manifest(pid): the facade answers with the
\* manifest it serves now, or the request fails and the exception leaves
\* fetch_fdo_object
FacadeResponds(i) ==
  /\ fetches[i].pc = "HTTP"
  /\ UNCHANGED _lock
  /\ \E outcome \in {Ok(remote[NormalizedPid(fetches[i].pid)])} \cup FetchFailures :
       fetches' = [fetches EXCEPT
                     ![i].http = outcome,
                     ![i].pc = AfterFetch(outcome),
                     ![i].result = IF AfterFetch(outcome) = "DONE" THEN outcome
                                   ELSE NoOutcome]
  /\ UNCHANGED <<remote, services, returned, contacted, connVars, codecVars, compatVars, storageVars>>

\* async with self._lock: self._manifest_cache[pid] = data; return data
StoreManifest(i) ==
  /\ fetches[i].pc = "STORE"
  /\ _lock = 0
  /\ _lock' = 0
  /\ _manifest_cache' =
       (NormalizedPid(fetches[i].pid) :> fetches[i].http.val) @@ _manifest_cache
  /\ fetches' = [fetches EXCEPT ![i].pc = "DONE",
                                ![i].result = Ok(fetches[i].http.val)]
  /\ UNCHANGED <<inbuf, eof, sent, pc, request, response, exc, written, flushed,
                 requests, calls>>
  /\ UNCHANGED <<remote, services, returned, contacted, codecVars, compatVars, storageVars>>

\* The facade comes to serve other manifests.
FacadeChanges ==
  /\ \E served \in [RegistryKeys -> FacadeManifests] :
       /\ served # remote
       /\ remote' = served
  /\ UNCHANGED <<fetches, services, returned, _lock, contacted, connVars, codecVars, compatVars, storageVars>>

RegistryNext ==
  \/ FetchCalled
  \/ \E i \in 1..Len(fetches) : CheckCache(i)
  \/ \E i \in 1..Len(fetches) : FacadeResponds(i)
  \/ \E i \in 1..Len(fetches) : StoreManifest(i)
  \/ FacadeChanges

SpecRegistry == Init /\ [][RegistryNext]_vars

\* ====================================================================
\* Properties of the manifest cache
\* ====================================================================
\* Call i has ended with a manifest fetched from the facade
Fetched(i) == fetches[i].pc = "DONE" /\ fetches[i].http.st = "ok"

\* Call i has ended with a manifest taken from the cache
ServedFromCache(i) ==
  /\ fetches[i].pc = "DONE"
  /\ fetches[i].http = NoOutcome
  /\ fetches[i].result.st = "ok"

\* C22: in every reachable state the manifest cache maps an identifier only
\* to a manifest that a successful fetch for that identifier returned, whole;
\* a fetch that fails (connection error, timeout, non-2xx status, unparsable
\* body) leaves the cache unchanged and raises to the caller.
C22_CacheHoldsOnlyFetchedManifests ==
  /\ [](\A k \in DOMAIN _manifest_cache :
          \E i \in 1..Len(fetches) :
             /\ Upper(fetches[i].pid) = k
             /\ Fetched(i)
             /\ fetches[i].http.val = _manifest_cache[k]
             /\ _manifest_cache[k] \in FacadeManifests)
  /\ [][\A i \in 1..Len(fetches) :
          (fetches[i].pc = "HTTP" /\ fetches'[i].http.st \notin {"none", "ok"}) =>
             /\ _manifest_cache' = _manifest_cache
             /\ fetches'[i].pc = "DONE"
             /\ fetches'[i].result = fetches'[i].http
             /\ fetches'[i].result \in FetchFailures]_vars
  /\ [](\A i \in 1..Len(fetches) :
          fetches[i].http.st \notin {"none", "ok"} => fetches[i].pc = "DONE")

\* A fetch of "Q1" has failed on a status that is not 2xx and a later one has
\* put the manifest into the cache
C22_Witness ==
  /\ Len(fetches) = 2
  /\ fetches[1].result.st = "HTTPStatusError"
  /\ fetches[1].pc = "DONE"
  /\ Fetched(2)
  /\ DOMAIN _manifest_cache = {<<81, 49>>}

\* C23: when two calls for the same identifier overlap (both miss the cache
\* before either inserts) and both succeed, both return the same manifest,
\* the one that ends up cached.
C23_OverlappingFetchesReturnCachedObject ==
  \A i, j \in 1..Len(fetches) :
     (/\ i # j
      /\ Upper(fetches[i].pid) = Upper(fetches[j].pid)
      /\ Fetched(i)
      /\ Fetched(j)) =>
        /\ fetches[i].result = fetches[j].result
        /\ fetches[i].result = Ok(_manifest_cache[Upper(fetches[i].pid)])

\* C24: once a fetch of an identifier has succeeded, every fetch of the same
\* identifier in any letter case that runs afterwards returns the cached
\* manifest without a request to the facade, whatever the facade serves or
\* fails with by then; no entry of the cache is ever removed.
C24_CachedIdentifierNeverRefetched ==
  /\ [][\A i \in 1..Len(fetches) :
          (/\ fetches[i].pc = "CHECK"
           /\ fetches'[i].pc # "CHECK"
           /\ \E j \in 1..Len(fetches) :
                /\ Upper(fetches[j].pid) = Upper(fetches[i].pid)
                /\ fetches[j].pc = "DONE"
                /\ fetches[j].result.st = "ok") =>
             /\ fetches'[i].pc = "DONE"
             /\ fetches'[i].http = NoOutcome
             /\ fetches'[i].result = Ok(_manifest_cache[Upper(fetches[i].pid)])]_vars
  /\ [][\A k \in DOMAIN _manifest_cache : k \in DOMAIN _manifest_cache']_vars
  /\ [](\A i \in 1..Len(fetches) :
          ServedFromCache(i) => Upper(fetches[i].pid) \in DOMAIN _manifest_cache)

\* "Q1" was fetched, the facade has come to serve another manifest for it,
\* and a fetch of "q1" was served from the cache with the first manifest
C24_Witness ==
  /\ Len(fetches) = 2
  /\ fetches[1].pid = <<81, 49>>
  /\ Fetched(1)
  /\ fetches[2].pid = <<113, 49>>
  /\ ServedFromCache(2)
  /\ fetches[2].result = Ok(Manifest)
  /\ remote[<<81, 49>>] = ManifestB

\* ====================================================================
\* One request served against services in a known state (SpecHandlers)
\* ====================================================================
\* {"element": name}
MetaElement(name) == JObj(<< <<"element", JStr(name)>> >>)

\* An object id that does not start with Q, and one without digits
StrX1 == <<88, 49>>
StrQ == <<81>>

\* {"workflow": "w"}
MetaWorkflowW == JObj(<< <<"workflow", JStr("w")>> >>)

\* The requests served (tests/server/test_handlers.py): retrieve without and
\* with element, of objects with and without a well-formed id; hello and
\* list_ops with any object id and blocks; invoke with the workflow named in
\* metadata blocks, in workflow blocks, in both and in none
HandlerRequests ==
  { Request(OP_RETRIEVE, oid, metas) :
      oid \in {StrQ1, <<113, 49>>},
      metas \in { <<>>, <<EmptyObj>>, <<EmptyObj, MetaElementC>>, <<MetaElementC>>,
                  <<MetaElement("d")>>, <<MetaElement("e")>>,
                  <<MetaElement("nope")>>, <<MetaElement("rocrate")>> } }
  \cup
  { Request(OP_RETRIEVE, oid, metas) :
      oid \in {StrX1, StrQ},
      metas \in { <<>>, <<MetaElementC>>, <<MetaElement("rocrate")>> } }
  \cup
  { DOIPMessage(DOIP_VERSION, MSG_TYPE_REQUEST, op, 0, oid, metas, comps, <<>>) :
      op \in {OP_HELLO, OP_LIST_OPS},
      oid \in {<<>>, StrQ1},
      metas \in {<<>>, <<MetaOperation("hello")>>, <<MetaElementC>>},
      comps \in {<<>>, <<ComponentBlock(StrC, BlobBytes, StrAB, Len(BlobBytes))>>} }
  \cup
  { Request(OP_INVOKE, oid, <<MetaWorkflowEq>>) : oid \in {StrQ1, StrX1, StrQ} }
  \cup
  { DOIPMessage(DOIP_VERSION, MSG_TYPE_REQUEST, OP_INVOKE, 0, StrQ1, b[1], <<>>, b[2]) :
      b \in { <<<<MetaWorkflowW>>, <<>>>>,
              <<<<EmptyObj, MetaWorkflowEq>>, <<>>>>,
              <<<<MetaWorkflowW, MetaWorkflowEq>>, <<>>>>,
              <<<<EmptyObj>>, <<MetaWorkflowEq>>>>,
              <<<<MetaWorkflowW>>, <<MetaWorkflowEq>>>>,
              <<<<MetaWorkflowEq>>, <<MetaWorkflowW>>>>,
              <<<<>>, <<EmptyObj, MetaWorkflowEqParams>>>>,
              <<<<>>, <<>>>>,
              <<<<EmptyObj>>, <<EmptyObj>>>> } }

\* What the registry has cached when the request arrives
HandlerCaches ==
  {<<>>, StrQ1 :> Manifest, StrQ1 :> ManifestTyped, StrQ1 :> ManifestCrate,
   StrQ1 :> ManifestDist}

\* A request has been read and the services are in some state
HandlersInit ==
  /\ CodecStart
  /\ inbuf = <<>>
  /\ eof = FALSE
  /\ sent = 1
  /\ pc = "DISPATCH"
  /\ request \in HandlerRequests
  /\ response = NoMsg
  /\ exc = NoExc
  /\ written = <<>>
  /\ flushed = 0
  /\ requests = <<request>>
  /\ calls = <<>>
  /\ _manifest_cache \in HandlerCaches
  /\ segments = <<>>
  /\ response_segments = <<>>
  /\ received = NotRead
  /\ fetches = <<>>
  /\ remote = FacadeAtStart
  /\ services \in Envs
  /\ returned = NotReturned
  /\ _lock = 0
  /\ contacted = <<>>
  /\ StorageIdle

\* response = await dispatch(msg, registry) with the services as they are
Serve == DispatchWith(services)

\* The element the retrieve request names
ElementOf(msg) ==
  IF msg.metadata_blocks = <<>> THEN JNone
  ELSE JGet(msg.metadata_blocks[1], "element")

\* content, media_type = await registry.get_component(pid, element), the call
\* handle_retrieve makes for a request that names an element
GetComponentCalled ==
  /\ pc = "DISPATCH"
  /\ request.operation = OP_RETRIEVE
  /\ Truthy(ElementOf(request))
  /\ \E r \in {get_component(_manifest_cache, services, Upper(request.object_id),
                             ElementOf(request))} :
       /\ returned' = r
       /\ _manifest_cache' = r.cache
  /\ pc' = "RETURNED"
  /\ UNCHANGED <<inbuf, eof, sent, request, response, exc, written, flushed, requests,
                 calls>>
  /\ UNCHANGED <<fetches, remote, services, _lock, contacted, codecVars, compatVars, storageVars>>

\* The same call step by step. Where get_component goes after the manifest
\* lookup: it raises when the fetch failed or no entry has the componentId
AfterLookup(component) ==
  IF component.st # "ok" \/ component.val = JNone THEN "RETURNED" ELSE "PROBE"

\* (a GET issued whatever the probe said, as a slip would have it)
AfterProbe_always(available) == "GET"

\* Where get_component goes after ensure_lakefs_available()
AfterProbe(available) == IF available THEN "GET" ELSE "RETURNED"

\* manifest = await self.fetch_fdo_object(object_id);
\* component = _find_component(component_id, manifest)
ComponentLookup ==
  /\ pc = "DISPATCH"
  /\ request.operation = OP_RETRIEVE
  /\ Truthy(ElementOf(request))
  /\ contacted' = Append(contacted, "manifest")
  /\ \E m \in {fetch_fdo_object(_manifest_cache, services, Upper(request.object_id))} :
       \E component \in {IF m.st # "ok" THEN Raise(m.st, m.detail)
                          ELSE Ok(_find_component(ElementOf(request), m.val))} :
         /\ _manifest_cache' = m.cache
         /\ pc' = AfterLookup(component)
         /\ returned' =
              IF component.st # "ok" THEN Res(component, m.cache)
              ELSE IF component.val = JNone
              THEN Res(Raise("KeyError",
                             KeyErrorStr("component-not-found:"
                                         \o PyFormat(ElementOf(request)))), m.cache)
              ELSE returned
  /\ UNCHANGED <<inbuf, eof, sent, request, response, exc, written, flushed, requests,
                 calls>>
  /\ UNCHANGED <<fetches, remote, services, _lock, codecVars, compatVars, storageVars>>

\* if not await storage_lakefs.ensure_lakefs_available(): raise ConnectionError()
ComponentProbe ==
  /\ pc = "PROBE"
  /\ contacted' = Append(contacted, "probe")
  /\ pc' = AfterProbe(ensure_lakefs_available(services))
  /\ returned' = IF ensure_lakefs_available(services) THEN returned
                 ELSE Res(Raise("ConnectionError", ""), _manifest_cache)
  /\ UNCHANGED <<inbuf, eof, sent, request, response, exc, written, flushed, requests,
                 calls, _manifest_cache>>
  /\ UNCHANGED <<fetches, remote, services, _lock, codecVars, compatVars, storageVars>>

\* content = await storage_lakefs.get_component_bytes(...), with the except
\* clauses of the call; return content, media_type
ComponentGet ==
  /\ pc = "GET"
  /\ contacted' = Append(contacted, "get")
  /\ pc' = "RETURNED"
  /\ \E component \in {_find_component(ElementOf(request),
                                        _manifest_cache[Upper(request.object_id)])} :
       \E content \in {get_component_bytes(services, Upper(request.object_id),
                          Chars(ElementOf(request).s),
                          _component_media_type(component).s,
                          _component_extension(component,
                                               _component_media_type(component)))} :
         returned' =
           IF content.st = "ok"
           THEN Res(Ok(<<content.val, _component_media_type(component)>>),
                    _manifest_cache)
           ELSE IF content.st = "KeyError"
           THEN Res(Raise("KeyError",
                          KeyErrorStr("component-not-found:"
                                      \o PyFormat(ElementOf(request)))),
                    _manifest_cache)
           ELSE Res(Raise("RuntimeError", "storage-backend error"), _manifest_cache)
  /\ UNCHANGED <<inbuf, eof, sent, request, response, exc, written, flushed, requests,
                 calls, _manifest_cache>>
  /\ UNCHANGED <<fetches, remote, services, _lock, codecVars, compatVars, storageVars>>

HandlersNext ==
  \/ Serve
  \/ GetComponentCalled
  \/ ComponentLookup
  \/ ComponentProbe
  \/ ComponentGet
  \/ WriteResponse
  \/ Drain

SpecHandlers == HandlersInit /\ [][HandlersNext]_vars

\* ------------------------------------------------------------------
\* Claims about the handlers
\* ------------------------------------------------------------------
\* get_component has returned or raised, and the manifest was to be had
ComponentCallReturned ==
  /\ pc = "RETURNED"
  /\ Upper(request.object_id) \in DOMAIN _manifest_cache

\* The manifest has an entry with the componentId the request names
ManifestLists(component_id) ==
  _find_component(component_id, _manifest_cache[Upper(request.object_id)]) # JNone

\* C25: get_component fails with three distinguishable kinds: KeyError
\* (ComponentNotFound) when the manifest has no entry with the componentId or
\* when the blob store reports the key missing, ConnectionError
\* (StorageUnavailable) when the reachability probe fails, RuntimeError
\* (StorageError) for any other failure of the blob store; a failure that is
\* not a missing key is never reported as ComponentNotFound.
C25_ThreeFailureKinds ==
  ComponentCallReturned =>
    returned.st =
      CASE ~ManifestLists(ElementOf(request)) -> "KeyError"
        [] ManifestLists(ElementOf(request)) /\ ~services.probe -> "ConnectionError"
        [] ManifestLists(ElementOf(request)) /\ services.probe
             /\ services.blob = "missing" -> "KeyError"
        [] ManifestLists(ElementOf(request)) /\ services.probe
             /\ services.blob = "error" -> "RuntimeError"
        [] OTHER -> "ok"

\* A retrieve request whose first metadata block names no element, or that
\* has no metadata block
RetrieveWithoutElement ==
  /\ request.operation = OP_RETRIEVE
  /\ ElementOf(request) = JNone

ManifestEntry ==
  _find_component(ElementOf(request), _manifest_cache[Upper(request.object_id)])

\* A member of a manifest entry that is a string and not the empty one
Declares(entry, key) == JGet(entry, key).t = "str" /\ JGet(entry, key).s # ""

\* The type a manifest entry declares; application/octet-stream without one
DeclaredType(entry) ==
  IF Declares(entry, "mediaType") THEN JGet(entry, "mediaType").s
  ELSE IF Declares(entry, "mimeType") THEN JGet(entry, "mimeType").s
  ELSE "application/octet-stream"

\* The object id, upper-cased, starts with Q followed by a decimal digit
WellFormedId(object_id) ==
  /\ Len(object_id) >= 2
  /\ Upper(object_id)[1] = 81
  /\ Upper(object_id)[2] \in 48..57

\* A retrieve request that names a component the manifest lists, not
\* "rocrate", has been served while the blob store held the component (it
\* holds components of objects with a well-formed id only)
RetrievedComponent ==
  /\ pc = "WRITE"
  /\ request.operation = OP_RETRIEVE
  /\ WellFormedId(request.object_id)
  /\ ElementOf(request).t = "str"
  /\ ElementOf(request).s \notin {"", "rocrate"}
  /\ Upper(request.object_id) \in DOMAIN _manifest_cache
  /\ ManifestLists(ElementOf(request))
  /\ services.probe
  /\ services.blob = "ok"

\* C27: a retrieve request whose first metadata block has element = c (c not
\* "rocrate"), for a component that the manifest lists and the blob store
\* holds, is answered with no metadata block and exactly one component block
\* with id c, the stored bytes as content, and as media type the manifest
\* entry's mediaType (or mimeType) when it is present and not empty,
\* application/octet-stream only when it is absent; application/pdf is never
\* assumed.
C27_RetrieveComponentHonoursDeclaredType ==
  RetrievedComponent =>
    /\ response.msg_type = MSG_TYPE_RESPONSE
    /\ response.metadata_blocks = <<>>
    /\ response.workflow_blocks = <<>>
    /\ Len(response.component_blocks) = 1
    /\ response.component_blocks[1].component_id = Chars(ElementOf(request).s)
    /\ response.component_blocks[1].content = StoredObject(Chars(ElementOf(request).s))
    /\ response.component_blocks[1].media_type = Chars(DeclaredType(ManifestEntry))
    /\ (response.component_blocks[1].media_type = Chars("application/pdf") =>
          Declares(ManifestEntry, "mediaType") \/ Declares(ManifestEntry, "mimeType"))

\* Component "d", whose entry has a mimeType and no mediaType, was retrieved
\* and came back with that type
C27_Witness ==
  /\ RetrievedComponent
  /\ ElementOf(request) = JStr("d")
  /\ JGet(ManifestEntry, "mediaType") = JNone
  /\ response.component_blocks[1].media_type = Chars("x/y")
  /\ response.component_blocks[1].content = EquationsJson

\* C28: a retrieve request with element = c, where the manifest has no
\* component with componentId c, is answered on the strict listener with an
\* error envelope whose metadata block has error equal to "ComponentNotFound".
C28_UnknownComponentIsComponentNotFound ==
  (/\ pc = "WRITE"
   /\ request.operation = OP_RETRIEVE
   /\ ElementOf(request).t = "str"
   /\ ElementOf(request).s \notin {"", "rocrate"}
   /\ Upper(request.object_id) \in DOMAIN _manifest_cache
   /\ ~ManifestLists(ElementOf(request))) =>
     /\ response.msg_type = MSG_TYPE_ERROR
     /\ Len(response.metadata_blocks) = 1
     /\ JGet(response.metadata_blocks[1], "error") = JStr("ComponentNotFound")

\* The request was routed to the handler of that name and has been answered
AnsweredBy(handler) ==
  /\ pc = "WRITE"
  /\ calls # <<>>
  /\ calls[1].handler = handler

\* {hello: 1, retrieve: 2, list_ops: 4, invoke: 5}, in any order
IsOperationsMap(ops) ==
  /\ ops.t = "obj"
  /\ Len(ops.kv) = 4
  /\ JGet(ops, "hello") = JInt(OP_HELLO)
  /\ JGet(ops, "retrieve") = JInt(OP_RETRIEVE)
  /\ JGet(ops, "list_ops") = JInt(OP_LIST_OPS)
  /\ JGet(ops, "invoke") = JInt(OP_INVOKE)

\* C29: hello and list_ops never fail: for every request routed to them,
\* whatever its object id and blocks and whatever the state of registry and
\* blob store, the answer is a response envelope, never an error envelope,
\* with exactly one metadata block; for hello it has operation "hello",
\* status "ok", version 2 and availableOperations {hello: 1, retrieve: 2,
\* list_ops: 4, invoke: 5}, for list_ops operation "list_operations" and the
\* same map.
C29_HelloAndListOpsNeverFail ==
  /\ AnsweredBy("handle_hello") =>
       /\ response.msg_type = MSG_TYPE_RESPONSE
       /\ Len(response.metadata_blocks) = 1
       /\ JGet(response.metadata_blocks[1], "operation") = JStr("hello")
       /\ JGet(response.metadata_blocks[1], "status") = JStr("ok")
       /\ JGet(response.metadata_blocks[1], "version") = JInt(DOIP_VERSION)
       /\ IsOperationsMap(JGet(response.metadata_blocks[1], "availableOperations"))
  /\ AnsweredBy("handle_list_ops") =>
       /\ response.msg_type = MSG_TYPE_RESPONSE
       /\ Len(response.metadata_blocks) = 1
       /\ JGet(response.metadata_blocks[1], "operation") = JStr("list_operations")
       /\ IsOperationsMap(JGet(response.metadata_blocks[1], "availableOperations"))

\* An invoke request has been answered with a response envelope
InvokeSucceeded ==
  /\ AnsweredBy("handle_invoke")
  /\ response.msg_type = MSG_TYPE_RESPONSE

\* The component block that answers one entry of derivedComponents
AnswersEntry(block, entry) ==
  /\ block.component_id = Chars(JGet(entry, "componentId").s)
  /\ block.media_type = Chars(JGet(entry, "mediaType").s)
  /\ block.content = StoredObject(Chars(JGet(entry, "componentId").s))

\* C30: a successful invoke of "equation_extraction" is answered with exactly
\* one metadata block {operation: "invoke", workflow, result}, one component
\* block per entry of result.derivedComponents in the same order, each with
\* that entry's componentId and media type and with the blob store's bytes for
\* that component as content, and exactly one workflow block equal to result.
C30_InvokeCarriesResultAndDerivedComponents ==
  InvokeSucceeded =>
    \A result \in {run_equation_extraction_workflow(services, request.object_id,
                                                    EmptyObj)} :
       /\ result.st = "ok"
       /\ response.operation = OP_INVOKE
       /\ response.metadata_blocks =
            <<JObj(<< <<"operation", JStr("invoke")>>,
                      <<"workflow", JStr("equation_extraction")>>,
                      <<"result", result.val>> >>)>>
       /\ response.workflow_blocks = <<result.val>>
       /\ Len(response.component_blocks) = Len(JGet(result.val, "derivedComponents").kv)
       /\ \A i \in 1..Len(response.component_blocks) :
            AnswersEntry(response.component_blocks[i],
                         JGet(result.val, "derivedComponents").kv[i][2])

\* The workflow ran for "Q1" and the answer carries its derived component,
\* the equations as JSON
C30_Witness ==
  /\ InvokeSucceeded
  /\ request.object_id = StrQ1
  /\ Len(response.component_blocks) = 1
  /\ response.component_blocks[1].component_id =
       Chars("doip:bitstream/Q1/equations-json")
  /\ response.component_blocks[1].media_type = Chars("application/json")
  /\ response.component_blocks[1].content = EquationsJson
  /\ Len(response.workflow_blocks) = 1

\* ====================================================================
\* The blob store's keys (SpecStorage)
\* ====================================================================
\* Identifiers: "Q4", "q4", "Q123", "q123", "Q12345", "Q123543", "q123543",
\* "Q1234567", "Q123_fulltext", "q123/x", "", "Q", "q", "X1", "123", "Q12x"
Identifiers ==
  { <<81, 52>>,
    <<113, 52>>,
    <<81, 49, 50, 51>>,
    <<113, 49, 50, 51>>,
    <<81, 49, 50, 51, 52, 53>>,
    <<81, 49, 50, 51, 53, 52, 51>>,
    <<113, 49, 50, 51, 53, 52, 51>>,
    <<81, 49, 50, 51, 52, 53, 54, 55>>,
    <<81, 49, 50, 51, 95, 102, 117, 108, 108, 116, 101, 120, 116>>,
    <<113, 49, 50, 51, 47, 120>>,
    <<>>,
    <<81>>,
    <<113>>,
    <<88, 49>>,
    <<49, 50, 51>>,
    <<81, 49, 50, 120>> }

\* "primary", "c"
ComponentIds == {<<112, 114, 105, 109, 97, 114, 121>>, <<99>>}

\* The media types of _TYPE_SUFFIX_MAP, one that is not in it, and none
MediaTypes ==
  {"", "application/pdf", "image/png", "image/jpeg", "image/svg+xml",
   "application/json", "a/b"}

\* The extension the caller gives: none, "txt", ".txt"
Extensions == {"", "txt", ".txt"}

\* configure() with and without a branch
Configs == {NoConfig, [branch |-> "dev"]}

\* The bucket holds nothing, so that a read names the key it asked for
StoreEmpty == [AllUp EXCEPT !.blob = "missing"]

StorageInit ==
  /\ CodecStart
  /\ inbuf = <<>>
  /\ eof = FALSE
  /\ sent = 0
  /\ pc = "READ"
  /\ request = NoMsg
  /\ response = NoMsg
  /\ exc = NoExc
  /\ written = <<>>
  /\ flushed = 0
  /\ requests = <<>>
  /\ calls = <<>>
  /\ _manifest_cache = <<>>
  /\ segments = <<>>
  /\ response_segments = <<>>
  /\ received = NotRead
  /\ fetches = <<>>
  /\ remote = FacadeAtStart
  /\ services = StoreEmpty
  /\ returned = NotReturned
  /\ _lock = 0
  /\ contacted = <<>>
  /\ _CFG \in Configs
  /\ args \in [object_id : Identifiers, component_id : ComponentIds,
               media_type : MediaTypes, extension : Extensions]
  /\ shard_result = NotCalled
  /\ put_result = NotCalled
  /\ get_result = NotCalled

\* shard_qid(object_id)
ShardCalled ==
  /\ shard_result.st = "none"
  /\ shard_result' = shard_qid(args.object_id)
  /\ UNCHANGED <<_CFG, args, put_result, get_result>>
  /\ UNCHANGED <<codecVars, connVars, compatVars, registryVars>>

\* await put_component_bytes(object_id, component_id, data, media_type, extension)
PutCalled ==
  /\ put_result.st = "none"
  /\ put_result' = put_component_bytes(services, args.object_id, args.component_id,
                                       BlobBytes, args.media_type, args.extension)
  /\ UNCHANGED <<_CFG, args, shard_result, get_result>>
  /\ UNCHANGED <<codecVars, connVars, compatVars, registryVars>>

\* await get_component_bytes(object_id, component_id, media_type, extension)
GetCalled ==
  /\ get_result.st = "none"
  /\ get_result' = get_component_bytes(services, args.object_id, args.component_id,
                                       args.media_type, args.extension)
  /\ UNCHANGED <<_CFG, args, shard_result, put_result>>
  /\ UNCHANGED <<codecVars, connVars, compatVars, registryVars>>

StorageNext ==
  \/ ShardCalled
  \/ PutCalled
  \/ GetCalled

SpecStorage == StorageInit /\ [][StorageNext]_vars

\* ------------------------------------------------------------------
\* Claims about the keys
\* ------------------------------------------------------------------
\* str.lower() on ASCII
Lower(s) == [i \in 1..Len(s) |-> IF s[i] \in 65..90 THEN s[i] + 32 ELSE s[i]]

\* "Q" followed by decimal digits and nothing else
IsQid(id) ==
  /\ Len(id) >= 2
  /\ id[1] = 81
  /\ \A i \in 2..Len(id) : id[i] \in 48..57

\* The digits of a QID with zeros in front up to six characters
PaddedDigits(id) ==
  IF Len(id) - 1 >= 6 THEN Tail(id)
  ELSE [i \in 1..6 |-> IF i <= 7 - Len(id) THEN 48 ELSE id[i - (6 - Len(id))]]

\* d[0:2]/d[2:4]/d[4:6]/Q<digits>
ShardOf(id) ==
  Text(<<PaddedDigits(id)[1], PaddedDigits(id)[2]>>) \o "/"
  \o Text(<<PaddedDigits(id)[3], PaddedDigits(id)[4]>>) \o "/"
  \o Text(<<PaddedDigits(id)[5], PaddedDigits(id)[6]>>) \o "/" \o Text(id)

\* C31: for every identifier Q<digits> in any letter case shard_qid returns
\* d[0:2]/d[2:4]/d[4:6]/Q<digits>, d being the digits padded with zeros on the
\* left to at least six characters (Q4 gives 00/00/04/Q4, Q123 00/01/23/Q123,
\* Q12345 01/23/45/Q12345, Q123543 12/35/43/Q123543); the result depends only
\* on the upper-cased identifier; an identifier without leading Q or without
\* digits after it is rejected.
C31_ShardIsPaddedPairsOfUpperCasedId ==
  shard_result.st # "none" =>
    /\ IsQid(Upper(args.object_id)) =>
         /\ shard_result.st = "ok"
         /\ shard_result.val = ShardOf(Upper(args.object_id))
    /\ ~IsQid(Upper(args.object_id)) => shard_result.st = "ValueError"
    /\ \A other \in {shard_qid(Upper(args.object_id)), shard_qid(Lower(args.object_id))} :
         /\ other.st = shard_result.st
         /\ other.st = "ok" => other.val = shard_result.val
    /\ Upper(args.object_id) = <<81, 52>> => shard_result.val = "00/00/04/Q4"
    /\ Upper(args.object_id) = <<81, 49, 50, 51>> => shard_result.val = "00/01/23/Q123"
    /\ Upper(args.object_id) = <<81, 49, 50, 51, 52, 53>> =>
         shard_result.val = "01/23/45/Q12345"
    /\ Upper(args.object_id) = <<81, 49, 50, 51, 53, 52, 51>> =>
         shard_result.val = "12/35/43/Q123543"

\* shard_qid was given "q123543" and returned the prefix of "Q123543"
C31_Witness ==
  /\ args.object_id = <<113, 49, 50, 51, 53, 52, 51>>
  /\ shard_result.st = "ok"
  /\ shard_result.val = "12/35/43/Q123543"

\* The length of the leading "Q<digits>" of an upper-cased object id
RECURSIVE BaseLen(_, _)
BaseLen(id, n) ==
  IF n < Len(id) /\ id[n + 1] \in 48..57 THEN BaseLen(id, n + 1) ELSE n

\* The object id with everything after its leading Q<digits> left out
BaseId(id) == SubSeq(Upper(id), 1, BaseLen(Upper(id), 1))

\* The object id starts, in any letter case, with Q and a digit
HasBaseId(id) == id # <<>> /\ Upper(id)[1] = 81 /\ IsQid(BaseId(id))

\* The extension of a key: the caller's, without its leading dot, when one is
\* given, else the one of the media type's table entry, else bin
KeyExtension(media_type, extension) ==
  CASE extension = ".txt" -> "txt"
    [] extension # "" /\ extension # ".txt" -> extension
    [] extension = "" /\ media_type = "application/pdf" -> "pdf"
    [] extension = "" /\ media_type = "image/png" -> "png"
    [] extension = "" /\ media_type = "image/jpeg" -> "jpg"
    [] extension = "" /\ media_type = "image/svg+xml" -> "svg"
    [] extension = "" /\ media_type = "application/json" -> "json"
    [] OTHER -> "bin"

\* <branch>/<shard-prefix>/components/<componentId>.<ext>
KeyOf(branch, a) ==
  branch \o "/" \o ShardOf(BaseId(a.object_id)) \o "/components/"
  \o Text(a.component_id) \o "." \o KeyExtension(a.media_type, a.extension)

\* The writer and the reader have both been called with the same arguments
WrittenAndRead == put_result.st # "none" /\ get_result.st # "none"

\* C32: for the same (object id, componentId, media type, extension override)
\* put_component_bytes and get_component_bytes address the same key, and the
\* key is <branch>/<shard-prefix of the base identifier>/components/
\* <componentId>.<ext>: branch is the configured branch ("main" without one),
\* whatever follows the leading Q<digits> of the object id is ignored, and
\* ext is the explicit override if given, else the media type's table entry
\* (pdf, png, jpg, svg, json), else bin.
C32_WriterAndReaderAddressTheSameKey ==
  WrittenAndRead =>
    /\ HasBaseId(args.object_id) =>
         /\ put_result.st = "ok"
         /\ put_result.val =
              KeyOf(IF _CFG = NoConfig THEN "main" ELSE _CFG.branch, args)
         /\ get_result.st = "KeyError"
         /\ get_result.detail = KeyErrorStr("S3 object not found: " \o put_result.val)
    /\ ~HasBaseId(args.object_id) =>
         /\ put_result.st = "ValueError"
         /\ get_result = put_result

\* "Q123_fulltext" was written and read with media type application/pdf on
\* branch "dev": both went to the key of "Q123"
C32_Witness ==
  /\ WrittenAndRead
  /\ args.object_id = <<81, 49, 50, 51, 95, 102, 117, 108, 108, 116, 101, 120, 116>>
  /\ args.component_id = <<112, 114, 105, 109, 97, 114, 121>>
  /\ args.media_type = "application/pdf"
  /\ args.extension = ""
  /\ put_result.st = "ok"
  /\ put_result.val = "dev/00/01/23/Q123/components/primary.pdf"
  /\ get_result.detail = "'S3 object not found: dev/00/01/23/Q123/components/primary.pdf'"

\* ------------------------------------------------------------------
\* Claims about identifiers, timeouts and the connection (SpecHandlers)
\* ------------------------------------------------------------------
\* The envelope is an error envelope of that kind
IsErrorOfKind(envelope, kind) ==
  /\ envelope.msg_type = MSG_TYPE_ERROR
  /\ Len(envelope.metadata_blocks) = 1
  /\ JGet(envelope.metadata_blocks[1], "error") = JStr(kind)

\* A retrieve or invoke request for an object id that is not well formed
\* has been dispatched
InvalidIdentifierServed ==
  /\ pc \in {"WRITE", "DRAIN"}
  /\ request.operation \in {OP_RETRIEVE, OP_INVOKE}
  /\ ~WellFormedId(request.object_id)

\* C33: a retrieve or invoke request whose object id, upper-cased, does not
\* start with Q followed by at least one decimal digit is answered with an
\* error envelope of kind InvalidIdentifier, in every retrieve mode and for
\* invoke, and the connection stays open: the server reads on after the
\* envelope is flushed.
C33_InvalidIdentifierIsReported ==
  /\ [](InvalidIdentifierServed => IsErrorOfKind(response, "InvalidIdentifier"))
  /\ [][(InvalidIdentifierServed /\ pc = "DRAIN") => pc' = "READ"]_vars

\* handle_retrieve was called for an object whose manifest is not cached and
\* the manifest fetch timed out
TimedOutServing ==
  /\ pc \in {"WRITE", "DRAIN"}
  /\ calls # <<>>
  /\ calls[1].handler = "handle_retrieve"
  /\ request.metadata_blocks = <<>> \/ request.metadata_blocks[1].t = "obj"
  /\ Upper(request.object_id) \notin DOMAIN _manifest_cache
  /\ services.fdo = "timeout"

\* C34: when the manifest fetch made while serving a strict-listener request
\* times out, the server writes an error envelope of kind UpstreamTimeout and
\* then closes the connection.
C34_TimeoutIsReportedAndCloses ==
  /\ [](TimedOutServing => IsErrorOfKind(response, "UpstreamTimeout"))
  /\ [][(TimedOutServing /\ pc = "DRAIN") => pc' = "FINALLY"]_vars

\* ------------------------------------------------------------------
\* Claims about retrieve of the element "rocrate" (SpecHandlers)
\* ------------------------------------------------------------------
\* A retrieve request that names the element "rocrate" has been dispatched
RocrateServed ==
  /\ pc = "WRITE"
  /\ request.operation = OP_RETRIEVE
  /\ ElementOf(request) = JStr("rocrate")

\* The registry has the manifest of the object, cached or fetched
ManifestAtHand == Upper(request.object_id) \in DOMAIN _manifest_cache

\* The manifest lists a component "rocrate"
ListsCrate == ManifestAtHand /\ ManifestLists(JStr("rocrate"))

\* Some distribution of the manifest's profile has a URL
HasDistributionUrl(manifest) ==
  LET Some(distributions) ==
        /\ distributions.t = "arr"
        /\ \E i \in 1..Len(distributions.kv) :
             /\ distributions.kv[i][2].t = "obj"
             /\ \E key \in {"contentUrl", "contentURL", "url"} :
                  JGet(distributions.kv[i][2], key).t = "str"
      In(profile) == profile.t = "obj" /\ Some(JGet(profile, "distribution"))
  IN In(JGet(manifest, "profile"))

\* What the RO-Crate builder gives: the ZIP of the downloaded file, empty
\* bytes when the manifest has no distribution URL or the download fails
BuilderOutput ==
  IF /\ ManifestAtHand
     /\ HasDistributionUrl(_manifest_cache[Upper(request.object_id)])
     /\ services.download
  THEN CrateZip ELSE <<>>

\* The content the request is to be answered with
CrateContent ==
  IF ListsCrate /\ services.probe /\ services.blob = "ok" THEN StoredCrate
  ELSE BuilderOutput

\* The response has no metadata block and exactly one component block, with
\* id "rocrate", media type "application/zip" and that content
IsCrateAnswer(envelope, content) ==
  /\ envelope.msg_type = MSG_TYPE_RESPONSE
  /\ envelope.metadata_blocks = <<>>
  /\ Len(envelope.component_blocks) = 1
  /\ envelope.component_blocks[1].component_id = Chars("rocrate")
  /\ envelope.component_blocks[1].media_type = Chars("application/zip")
  /\ envelope.component_blocks[1].content = content

HasWorkflow(block) ==
  /\ block.t = "obj"
  /\ \E i \in 1..Len(block.kv) : block.kv[i][1] = "workflow"

\* The first block of the list with a member "workflow", None without one
FirstWith(blocks) ==
  IF \E i \in 1..Len(blocks) : HasWorkflow(blocks[i])
  THEN blocks[CHOOSE i \in 1..Len(blocks) :
                /\ HasWorkflow(blocks[i])
                /\ \A j \in 1..(i - 1) : ~HasWorkflow(blocks[j])]
  ELSE JNone

\* The block an invoke request takes its workflow from
WorkflowSource(msg) ==
  IF FirstWith(msg.metadata_blocks) # JNone THEN FirstWith(msg.metadata_blocks)
  ELSE FirstWith(msg.workflow_blocks)

\* The member "params" of the block, {} without one
ParamsOf(block) ==
  IF \E i \in 1..Len(block.kv) : block.kv[i][1] = "params"
  THEN JGet(block, "params") ELSE EmptyObj

\* C36: invoke takes (workflow, params) from the first metadata block that
\* contains the key "workflow" and, only when no metadata block contains it,
\* from the first workflow block that contains it, params defaulting to {};
\* when no block contains "workflow" the request is answered with an error
\* envelope whatever the state of the services, neither the workflow nor the
\* blob store having been used.
C36_WorkflowFromFirstBlockThatNamesIt ==
  AnsweredBy("handle_invoke") =>
    \A source \in {WorkflowSource(request)} :
      IF source = JNone
      THEN /\ _requested_workflow(request).st = "ProtocolError"
           /\ response = _error_message(request, "ProtocolError",
                                        "Workflow not specified in invoke request")
           /\ _manifest_cache \in HandlerCaches
      ELSE /\ _requested_workflow(request).st = "ok"
           /\ _requested_workflow(request).val
                = <<JGet(source, "workflow"), ParamsOf(source)>>
           /\ JGet(source, "workflow") # JStr("equation_extraction") =>
                /\ IsErrorOfKind(response, "ProtocolError")
                /\ JGet(response.metadata_blocks[1], "message")
                     = JStr("Unsupported workflow " \o JGet(source, "workflow").s)
           /\ (JGet(source, "workflow") = JStr("equation_extraction")
                 /\ response.msg_type = MSG_TYPE_RESPONSE) =>
                JGet(response.metadata_blocks[1], "workflow")
                  = JStr("equation_extraction")
           /\ (JGet(source, "workflow") = JStr("equation_extraction")
                 /\ WellFormedId(request.object_id)
                 /\ services.blob = "ok" /\ services.put /\ services.wiki) =>
                response.msg_type = MSG_TYPE_RESPONSE

\* A metadata block names the workflow "w" and a workflow block names
\* equation_extraction: the request is refused for "w"
C36_Witness ==
  /\ AnsweredBy("handle_invoke")
  /\ request.metadata_blocks = <<MetaWorkflowW>>
  /\ request.workflow_blocks = <<MetaWorkflowEq>>
  /\ IsErrorOfKind(response, "ProtocolError")
  /\ JGet(response.metadata_blocks[1], "message") = JStr("Unsupported workflow w")

\* ------------------------------------------------------------------
\* Claims about the manifest-cache mutex (SpecRegistry)
\* ------------------------------------------------------------------
\* Call a is suspended in _fetch_manifest while call b, for an identifier
\* that is cached, stands before its lookup
CachedCallWaits(a, b) ==
  /\ fetches[a].pc = "HTTP"
  /\ fetches[b].pc = "CHECK"
  /\ CacheHit(_manifest_cache, NormalizedPid(fetches[b].pid))

\* C35: the manifest-cache mutex is held only during the cache lookup and
\* during the cache insert, never across the manifest fetch: it is free
\* whenever a call is suspended, and while a fetch for identifier A waits for
\* the facade a call for a cached identifier B can take the lock, and when
\* it does it returns the cached manifest while A's fetch is still waiting.
C35_LockNotHeldAcrossFetch ==
  /\ [](_lock = 0)
  /\ [](\A a, b \in 1..Len(fetches) : CachedCallWaits(a, b) => ENABLED CheckCache(b))
  /\ [][\A a, b \in 1..Len(fetches) :
          (CachedCallWaits(a, b) /\ CheckCache(b)) =>
             /\ fetches'[b].pc = "DONE"
             /\ fetches'[b].result = Ok(_manifest_cache[NormalizedPid(fetches[b].pid)])
             /\ fetches'[a].pc = "HTTP"]_vars

\* The call for "Q1" waits for the facade, and a later call for "Q2", cached
\* by the first call, has returned from the cache
C35_Witness ==
  /\ Len(fetches) = 3
  /\ fetches[1].pid = <<81, 50>>
  /\ Fetched(1)
  /\ fetches[2].pid = <<81, 49>>
  /\ fetches[2].pc = "HTTP"
  /\ fetches[3].pid = <<81, 50>>
  /\ ServedFromCache(3)
  /\ _lock = 0

\* ------------------------------------------------------------------
\* Claims about the order of get_component's steps (SpecHandlers)
\* ------------------------------------------------------------------
\* get_component, run step by step, has returned or raised
SteppedCallReturned == pc = "RETURNED" /\ contacted # <<>>

\* C39: get_component performs its steps in the order manifest lookup,
\* reachability probe, blob GET and stops at the first failure: when the
\* manifest cannot be had or has no entry for the componentId the blob store
\* is not contacted at all, when the probe fails no GET is issued, and the
\* outcome is that of the call as a whole.
C39_StepsInOrderStopAtFirstFailure ==
  /\ \E n \in 0..3 : contacted = SubSeq(<<"manifest", "probe", "get">>, 1, n)
  /\ SteppedCallReturned =>
       /\ IF ~ManifestAtHand THEN contacted = <<"manifest">>
          ELSE IF ~ManifestLists(ElementOf(request))
          THEN contacted = <<"manifest">> /\ returned.st = "KeyError"
          ELSE IF ~services.probe
          THEN contacted = <<"manifest", "probe">> /\ returned.st = "ConnectionError"
          ELSE contacted = <<"manifest", "probe", "get">>
       /\ \A whole \in {get_component(_manifest_cache, services,
                                       Upper(request.object_id), ElementOf(request))} :
            /\ returned.st = whole.st
            /\ returned.detail = whole.detail
            /\ returned.val = whole.val

\* The manifest lists the component and the probe fails: the call raises
\* ConnectionError after the manifest lookup and the probe, without a GET
C39_Witness ==
  /\ SteppedCallReturned
  /\ request.object_id = StrQ1
  /\ ElementOf(request) = JStr("c")
  /\ _manifest_cache = (StrQ1 :> Manifest)
  /\ ~services.probe
  /\ services.blob = "ok"
  /\ contacted = <<"manifest", "probe">>
  /\ returned.st = "ConnectionError"

\* ------------------------------------------------------------------
\* Claims about the reference client's codec (SpecCodec)
\* ------------------------------------------------------------------
\* The bytes of a frame that follow its header and object id
PayloadOf(buf) ==
  SubSeq(buf, HEADER_SIZE + UnpackU16(buf, 4) + 1,
         HEADER_SIZE + UnpackU16(buf, 4) + UnpackU32(buf, 6))

\* A whole frame: header, object id and payload are all there
WholeFrame(buf) ==
  /\ Len(buf) >= HEADER_SIZE
  /\ Len(buf) >= HEADER_SIZE + UnpackU16(buf, 4) + UnpackU32(buf, 6)

\* The client and the server decode the payload alike: both refuse it, or
\* both accept it with the same three block lists
BlocksDecodedAlike(payload) ==
  \A mine \in {decode_doip_blocks(payload)} :
    \A theirs \in {WalkBlocks(payload, 0, <<>>, <<>>, <<>>)} :
      /\ (mine.st = "ok") <=> (theirs.st = "ok")
      /\ mine.st = "ok" =>
           /\ mine.metas = theirs.metas
           /\ mine.comps = theirs.comps
           /\ mine.wfs = theirs.wfs

\* C38: the client codec mirrors the server codec: for every payload the
\* client's decode_doip_blocks and the server's block decoding both reject it
\* or both accept it with identical metadata, component and workflow block
\* lists; the bytes the client sends for a request equal the server's
\* to_bytes of the same request message; and the client rejects a response
\* frame whose version is not 2 exactly as the server codec does.
C38_ClientCodecMirrorsServerCodec ==
  /\ (phase = "received" /\ WholeFrame(wire)) =>
       /\ BlocksDecodedAlike(PayloadOf(wire))
       /\ parsed.st = "ok" =>
            /\ client_response.st = "ok"
            /\ client_response.metadata_blocks = parsed.msg.metadata_blocks
            /\ client_response.component_blocks = parsed.msg.component_blocks
            /\ client_response.workflow_blocks = parsed.msg.workflow_blocks
  /\ (phase = "sent" /\ message.msg_type = MSG_TYPE_REQUEST) =>
       client_wire = to_bytes(message)
  /\ (phase = "received" /\ WholeFrame(wire) /\ wire[1] # DOIP_VERSION) =>
       /\ parsed.st = "ProtocolError"
       /\ client_response.st # "ok"
====
